---- MODULE Spec2Model ----
(***************************************************************************)
(* Model of the transformation-to-query compiler (sql_generator.py), the   *)
(* execution adapter (bigquery_client.py, streamlit_app.py) and the        *)
(* scenario orchestrators (excel_handler.py, streamlit_app.py).            *)
(*                                                                         *)
(* Text that the code inspects character by character (derivation logic,   *)
(* join key specifications, fragments) is a sequence of one-character      *)
(* strings, so that startswith / in / split / strip / lower are computed   *)
(* as Python computes them.                                                *)
(***************************************************************************)
EXTENDS Integers, Sequences, FiniteSets, TLC

(***************************************************************************)
(* Python str primitives                                                   *)
(***************************************************************************)
LowerLetters == <<"a","b","c","d","e","f","g","h","i","j","k","l","m","n","o","p","q","r","s","t","u","v","w","x","y","z">>

UpperLetters == <<"A","B","C","D","E","F","G","H","I","J","K","L","M","N","O","P","Q","R","S","T","U","V","W","X","Y","Z">>

Digits == <<"0","1","2","3","4","5","6","7","8","9">>

IndexIn(c, alphabet) ==
  IF \E k \in 1..Len(alphabet) : alphabet[k] = c
  THEN CHOOSE k \in 1..Len(alphabet) : alphabet[k] = c
  ELSE 0

\* str.upper() on one character
UpperChar(c) ==
  IF IndexIn(c, LowerLetters) > 0 THEN UpperLetters[IndexIn(c, LowerLetters)] ELSE c

\* str.lower() on one character
LowerChar(c) ==
  IF IndexIn(c, UpperLetters) > 0 THEN LowerLetters[IndexIn(c, UpperLetters)] ELSE c

\* str.upper()
Upper(s) == [k \in 1..Len(s) |-> UpperChar(s[k])]

\* str.lower()
Lower(s) == [k \in 1..Len(s) |-> LowerChar(s[k])]

\* the whitespace str.strip() removes, as far as the inputs of this model go
IsSpace(c) == c \in {" ", "\t", "\n"}

\* str.strip()
Strip(s) ==
  IF \A k \in 1..Len(s) : IsSpace(s[k]) THEN <<>>
  ELSE LET a == CHOOSE k \in 1..Len(s) :
                  ~IsSpace(s[k]) /\ \A j \in 1..(k-1) : IsSpace(s[j])
           b == CHOOSE k \in 1..Len(s) :
                  ~IsSpace(s[k]) /\ \A j \in (k+1)..Len(s) : IsSpace(s[j])
       IN SubSeq(s, a, b)

\* p occurs in s at position k
OccursAt(s, p, k) ==
  /\ k >= 1
  /\ k + Len(p) - 1 <= Len(s)
  /\ SubSeq(s, k, k + Len(p) - 1) = p

\* str.startswith(p)
StartsWith(s, p) == OccursAt(s, p, 1)

\* p in s  (substring test)
Contains(s, p) == \E k \in 1..(Len(s) + 1) : OccursAt(s, p, k)

\* str.find(p) counted from 1, 0 when absent; looks at positions >= from
FindFrom(s, p, from) ==
  IF \E k \in from..(Len(s) + 1) : OccursAt(s, p, k)
  THEN CHOOSE k \in from..(Len(s) + 1) :
         OccursAt(s, p, k) /\ \A j \in from..(k-1) : ~OccursAt(s, p, j)
  ELSE 0

RECURSIVE Split(_, _)
\* str.split(sep): the list of parts, at least one
Split(s, sep) ==
  LET k == FindFrom(s, sep, 1)
  IN IF k = 0 THEN <<s>>
     ELSE <<SubSeq(s, 1, k - 1)>> \o Split(SubSeq(s, k + Len(sep), Len(s)), sep)

RECURSIVE Remove(_, _)
\* str.replace(old, '')
Remove(s, old) ==
  LET k == FindFrom(s, old, 1)
  IN IF k = 0 THEN s
     ELSE SubSeq(s, 1, k - 1) \o Remove(SubSeq(s, k + Len(old), Len(s)), old)

RECURSIVE Join(_, _)
\* sep.join(parts)
Join(parts, sep) ==
  IF Len(parts) = 0 THEN <<>>
  ELSE IF Len(parts) = 1 THEN parts[1]
  ELSE parts[1] \o sep \o Join(Tail(parts), sep)

\* x in list  (list membership, exact)
InList(x, list) == \E k \in 1..Len(list) : list[k] = x

RECURSIVE IntStr(_)
\* str(n) for n >= 0
IntStr(n) == IF n < 10 THEN <<Digits[n + 1]>> ELSE IntStr(n \div 10) \o <<Digits[(n % 10) + 1]>>

(***************************************************************************)
(* sql_generator.convert_business_logic_to_safe_sql                        *)
(***************************************************************************)
customers_columns ==
  << <<"c","u","s","t","o","m","e","r","_","i","d">>, <<"f","i","r","s","t","_","n","a","m","e">>, <<"l","a","s","t","_","n","a","m","e">>, <<"f","u","l","l","_","n","a","m","e">>,
     <<"a","c","c","o","u","n","t","_","n","u","m","b","e","r">>, <<"a","c","c","o","u","n","t","_","t","y","p","e">>, <<"b","a","l","a","n","c","e">>, <<"a","c","c","o","u","n","t","_","o","p","e","n","_","d","a","t","e">>,
     <<"a","d","d","r","e","s","s">>, <<"c","i","t","y">>, <<"s","t","a","t","e">>, <<"z","i","p","_","c","o","d","e">>, <<"r","i","s","k","_","s","c","o","r","e">>,
     <<"a","c","c","o","u","n","t","_","s","t","a","t","u","s">>, <<"m","o","n","t","h","l","y","_","i","n","c","o","m","e">> >>

transactions_columns ==
  << <<"t","r","a","n","s","a","c","t","i","o","n","_","i","d">>, <<"a","c","c","o","u","n","t","_","n","u","m","b","e","r">>, <<"t","r","a","n","s","a","c","t","i","o","n","_","t","y","p","e">>, <<"a","m","o","u","n","t">>,
     <<"t","r","a","n","s","a","c","t","i","o","n","_","d","a","t","e">>, <<"c","h","a","n","n","e","l">>, <<"m","e","r","c","h","a","n","t">>, <<"t","r","a","n","s","a","c","t","i","o","n","_","c","i","t","y">>,
     <<"t","r","a","n","s","a","c","t","i","o","n","_","s","t","a","t","e">>, <<"s","t","a","t","u","s">>, <<"i","s","_","f","r","a","u","d","u","l","e","n","t">>, <<"p","r","o","c","e","s","s","i","n","g","_","f","e","e">> >>

account_profiles_columns ==
  << <<"c","u","s","t","o","m","e","r","_","r","e","f","e","r","e","n","c","e">>, <<"a","c","c","o","u","n","t","_","i","d">>, <<"c","u","r","r","e","n","t","_","b","a","l","a","n","c","e">>,
     <<"a","c","c","o","u","n","t","_","s","t","a","t","u","s">>, <<"a","c","c","o","u","n","t","_","t","y","p","e">>, <<"l","a","s","t","_","t","r","a","n","s","a","c","t","i","o","n","_","d","a","t","e">>,
     <<"c","r","e","d","i","t","_","l","i","m","i","t">> >>

\* available_columns_of with the customers and transactions lists exchanged
available_columns_swapped(source_table) ==
  IF Lower(source_table) = <<"c","u","s","t","o","m","e","r","s">> THEN transactions_columns
  ELSE IF Lower(source_table) = <<"t","r","a","n","s","a","c","t","i","o","n","s">> THEN customers_columns
  ELSE IF Lower(source_table) = <<"a","c","c","o","u","n","t","_","p","r","o","f","i","l","e","s">> THEN account_profiles_columns
  ELSE << <<"*">> >>

\* the if/elif on source_table.lower() that picks available_columns
available_columns_of(source_table) ==
  IF Lower(source_table) = <<"c","u","s","t","o","m","e","r","s">> THEN customers_columns
  ELSE IF Lower(source_table) = <<"t","r","a","n","s","a","c","t","i","o","n","s">> THEN transactions_columns
  ELSE IF Lower(source_table) = <<"a","c","c","o","u","n","t","_","p","r","o","f","i","l","e","s">> THEN account_profiles_columns
  ELSE << <<"*">> >>

\* [c.lower() for c in available_columns]
LowerAll(list) == [k \in 1..Len(list) |-> Lower(list[k])]

\* the CHECK_NOT_NULL column_mapping dictionary: key -> value, <<>> when absent
column_mapping(col) ==
  IF col = <<"e","m","a","i","l">> THEN <<"a","d","d","r","e","s","s">>
  ELSE IF col = <<"c","u","s","t","o","m","e","r","_","i","d">> THEN <<"c","u","s","t","o","m","e","r","_","i","d">>
  ELSE IF col = <<"f","i","r","s","t","_","n","a","m","e">> THEN <<"f","i","r","s","t","_","n","a","m","e">>
  ELSE <<>>

\* re.search(r'CHECK_NOT_NULL\((.*?)\)', logic, re.IGNORECASE): group(1) as a
\* one-element list, or the empty list when there is no match
check_not_null_match(logic) ==
  LET open == FindFrom(Upper(logic), <<"C","H","E","C","K","_","N","O","T","_","N","U","L","L","(">>, 1)
      start == open + Len(<<"C","H","E","C","K","_","N","O","T","_","N","U","L","L","(">>)
      close == IF open = 0 THEN 0 ELSE FindFrom(logic, <<")">>, start)
  IN IF open = 0 \/ close = 0 THEN <<>> ELSE << SubSeq(logic, start, close - 1) >>

RECURSIVE valid_columns_of(_, _)
\* the loop that builds valid_columns from the CHECK_NOT_NULL arguments
valid_columns_of(columns, available_columns) ==
  IF Len(columns) = 0 THEN <<>>
  ELSE LET col == columns[1]
           here ==
             IF column_mapping(col) # <<>> /\ InList(column_mapping(col), LowerAll(available_columns))
             THEN << column_mapping(col) >>
             ELSE IF InList(col, LowerAll(available_columns)) THEN << col >>
             ELSE <<>>
       IN here \o valid_columns_of(Tail(columns), available_columns)

\* the CHECK_NOT_NULL branch
check_not_null_sql(logic, available_columns) ==
  LET match == check_not_null_match(logic)
  IN IF Len(match) = 0 THEN <<"1","0","0">>
     ELSE LET parts == Split(match[1], <<",">>)
              columns == [k \in 1..Len(parts) |-> Lower(Strip(parts[k]))]
              valid_columns == valid_columns_of(columns, available_columns)
              conditions == [k \in 1..Len(valid_columns) |->
                               <<"C","A","S","E"," ","W","H","E","N"," ">> \o valid_columns[k] \o <<" ","I","S"," ","N","O","T"," ","N","U","L","L"," ","T","H","E","N"," ","1"," ","E","L","S","E"," ","0"," ","E","N","D">>]
          IN IF Len(valid_columns) > 0
             THEN <<"(">> \o Join(conditions, <<" ","+"," ">>) \o <<")"," ","/"," ">> \o IntStr(Len(valid_columns)) \o <<" ","*"," ","1","0","0">>
             ELSE <<"1","0","0">>

\* the CASE WHEN branch: an if/elif chain whose arms return only when their
\* inner column test holds; every other path reaches the '"Standard"' return
case_when_sql(logic, available_columns) ==
  LET has(p) == Contains(logic, p)
      col(c) == InList(c, available_columns)
      standard == <<"\"","S","t","a","n","d","a","r","d","\"">>
  IN IF has(<<"a","m","o","u","n","t"," ",">"," ","0">>) /\ has(<<"C","r","e","d","i","t">>) /\ has(<<"D","e","b","i","t">>)
     THEN IF col(<<"a","m","o","u","n","t">>) THEN <<"C","A","S","E"," ","W","H","E","N"," ","a","m","o","u","n","t"," ",">"," ","0"," ","T","H","E","N"," ","\"","C","r","e","d","i","t","\""," ","E","L","S","E"," ","\"","D","e","b","i","t","\""," ","E","N","D">> ELSE standard
     ELSE IF has(<<"b","a","l","a","n","c","e"," ","<">>) /\ has(<<"B","a","s","i","c">>) /\ has(<<"S","t","a","n","d","a","r","d">>) /\ has(<<"P","r","e","m","i","u","m">>)
     THEN IF col(<<"b","a","l","a","n","c","e">>)
          THEN <<"C","A","S","E"," ","W","H","E","N"," ","b","a","l","a","n","c","e"," ","<"," ","1","0","0","0"," ","T","H","E","N"," ","\"","B","a","s","i","c","\""," ","W","H","E","N"," ","b","a","l","a","n","c","e"," ","<"," ","1","0","0","0","0"," ","T","H","E","N"," ","\"","S","t","a","n","d","a","r","d","\""," ","E","L","S","E"," ","\"","P","r","e","m","i","u","m","\""," ","E","N","D">>
          ELSE standard
     ELSE IF has(<<"a","c","c","o","u","n","t","_","t","y","p","e"," ","=">>) /\ has(<<"P","e","r","s","o","n","a","l">>) /\ has(<<"B","u","s","i","n","e","s","s">>)
     THEN IF col(<<"a","c","c","o","u","n","t","_","t","y","p","e">>)
          THEN <<"C","A","S","E"," ","W","H","E","N"," ","a","c","c","o","u","n","t","_","t","y","p","e"," ","="," ","\"","S","A","V","I","N","G","S","\""," ","T","H","E","N"," ","\"","P","e","r","s","o","n","a","l","\""," ","W","H","E","N"," ","a","c","c","o","u","n","t","_","t","y","p","e"," ","="," ","\"","C","H","E","C","K","I","N","G","\""," ","T","H","E","N"," ","\"","P","e","r","s","o","n","a","l","\""," ","E","L","S","E"," ","\"","B","u","s","i","n","e","s","s","\""," ","E","N","D">>
          ELSE standard
     ELSE IF has(<<"b","a","l","a","n","c","e"," ","<">>) /\ has(<<"H","i","g","h">>) /\ has(<<"M","e","d","i","u","m">>) /\ has(<<"L","o","w">>)
     THEN IF col(<<"b","a","l","a","n","c","e">>)
          THEN <<"C","A","S","E"," ","W","H","E","N"," ","b","a","l","a","n","c","e"," ","<"," ","1","0","0","0"," ","T","H","E","N"," ","\"","H","i","g","h","\""," ","W","H","E","N"," ","b","a","l","a","n","c","e"," ","<"," ","1","0","0","0","0"," ","T","H","E","N"," ","\"","M","e","d","i","u","m","\""," ","E","L","S","E"," ","\"","L","o","w","\""," ","E","N","D">>
          ELSE standard
     ELSE IF has(<<"a","g","e"," ","<">>) /\ has(<<"Y","o","u","n","g">>) /\ has(<<"A","d","u","l","t">>) /\ has(<<"S","e","n","i","o","r">>)
     THEN IF col(<<"a","g","e">>)
          THEN <<"C","A","S","E"," ","W","H","E","N"," ","a","g","e"," ","<"," ","2","5"," ","T","H","E","N"," ","\"","Y","o","u","n","g","\""," ","W","H","E","N"," ","a","g","e"," ","<"," ","6","5"," ","T","H","E","N"," ","\"","A","d","u","l","t","\""," ","E","L","S","E"," ","\"","S","e","n","i","o","r","\""," ","E","N","D">>
          ELSE standard
     ELSE IF has(<<"b","a","l","a","n","c","e">>) /\ col(<<"b","a","l","a","n","c","e">>) THEN logic
     ELSE IF \E k \in 1..Len(available_columns) : Contains(Lower(logic), Lower(available_columns[k]))
     THEN logic
     ELSE standard

\* the final else: the first available column that occurs in the logic, else "1"
default_sql(logic, available_columns) ==
  LET hit(k) == Contains(Lower(logic), Lower(available_columns[k]))
  IN IF \E k \in 1..Len(available_columns) : hit(k)
     THEN available_columns[CHOOSE k \in 1..Len(available_columns) :
                              hit(k) /\ \A j \in 1..(k-1) : ~hit(j)]
     ELSE <<"1">>

\* what the try block yields when a statement in it raises; no SQL text is
\* this one-element sequence, a fragment being a sequence of characters
Exception == << "Exception" >>

\* the SUM( ... GROUP_BY branch; the code reads both parts of the split, and a
\* missing second part is an IndexError
sum_sql(logic, available_columns) ==
  LET parts == Split(Upper(logic), <<"G","R","O","U","P","_","B","Y">>)
      agg_part == Strip(parts[1])
      sum_column == Lower(Strip(Remove(Remove(agg_part, <<"S","U","M","(">>), <<")">>)))
  IN IF Len(parts) < 2 THEN Exception
     ELSE IF sum_column = <<"b","a","l","a","n","c","e">> /\ InList(<<"b","a","l","a","n","c","e">>, available_columns) THEN <<"S","U","M","(","b","a","l","a","n","c","e",")">>
     ELSE IF sum_column = <<"a","m","o","u","n","t">> /\ InList(<<"a","m","o","u","n","t">>, available_columns) THEN <<"S","U","M","(","a","m","o","u","n","t",")">>
     ELSE <<"C","O","U","N","T","(","*",")">>

\* the CONCAT( branch: the guarded return and the fallback return after it
concat_sql(logic, available_columns) ==
  IF /\ InList(<<"f","i","r","s","t","_","n","a","m","e">>, available_columns) /\ InList(<<"l","a","s","t","_","n","a","m","e">>, available_columns)
     /\ Contains(logic, <<"f","i","r","s","t","_","n","a","m","e">>) /\ Contains(logic, <<"l","a","s","t","_","n","a","m","e">>)
  THEN <<"C","O","N","C","A","T","(","f","i","r","s","t","_","n","a","m","e",","," ","\""," ","\"",","," ","l","a","s","t","_","n","a","m","e",")">>
  ELSE <<"C","O","N","C","A","T","(","f","i","r","s","t","_","n","a","m","e",","," ","\""," ","\"",","," ","l","a","s","t","_","n","a","m","e",")">>

\* the two last rules: exact column name, then default_sql
simple_column_sql(logic, available_columns) ==
  IF InList(Lower(logic), LowerAll(available_columns))
  THEN Lower(logic)
  ELSE default_sql(logic, available_columns)

\* the body of the try block
try_block(logic, available_columns) ==
  LET U == Upper(logic)
      col(c) == InList(c, available_columns)
  IN IF StartsWith(U, <<"S","U","M","(">>) /\ Contains(U, <<"G","R","O","U","P","_","B","Y">>)
     THEN sum_sql(logic, available_columns)
     ELSE IF StartsWith(U, <<"C","O","U","N","T","(">>) /\ Contains(U, <<"G","R","O","U","P","_","B","Y">>)
     THEN <<"C","O","U","N","T","(","*",")">>
     ELSE IF StartsWith(U, <<"A","V","G","(">>) /\ Contains(U, <<"G","R","O","U","P","_","B","Y">>)
     THEN IF col(<<"a","m","o","u","n","t">>) THEN <<"A","V","G","(","a","m","o","u","n","t",")">>
          ELSE IF col(<<"b","a","l","a","n","c","e">>) THEN <<"A","V","G","(","b","a","l","a","n","c","e",")">>
          ELSE <<"C","O","U","N","T","(","*",")">>
     ELSE IF StartsWith(U, <<"I","F","(">>)
     THEN IF col(<<"a","m","o","u","n","t">>) /\ Contains(logic, <<"a","m","o","u","n","t"," ",">"," ","1","0","0","0","0">>)
          THEN <<"C","A","S","E"," ","W","H","E","N"," ","a","m","o","u","n","t"," ",">"," ","1","0","0","0","0"," ","T","H","E","N"," ","\"","H","i","g","h"," ","R","i","s","k","\""," ","E","L","S","E"," ","\"","N","o","r","m","a","l","\""," ","E","N","D">>
          ELSE IF col(<<"b","a","l","a","n","c","e">>) /\ Contains(logic, <<"b","a","l","a","n","c","e"," ",">"," ","5","0","0","0","0">>)
          THEN <<"C","A","S","E"," ","W","H","E","N"," ","b","a","l","a","n","c","e"," ",">"," ","5","0","0","0","0"," ","T","H","E","N"," ","\"","P","r","e","m","i","u","m","\""," ","E","L","S","E"," ","\"","S","t","a","n","d","a","r","d","\""," ","E","N","D">>
          ELSE <<"\"","S","t","a","n","d","a","r","d","\"">>
     ELSE IF Contains(U, <<"C","H","E","C","K","_","N","O","T","_","N","U","L","L">>)
     THEN check_not_null_sql(logic, available_columns)
     ELSE IF Contains(U, <<"V","A","L","I","D","A","T","E","_","E","M","A","I","L","_","F","O","R","M","A","T">>) \/ Contains(U, <<"V","A","L","I","D","A","T","E","_","A","D","D","R","E","S","S","_","F","O","R","M","A","T">>)
     THEN IF col(<<"a","d","d","r","e","s","s">>)
          THEN <<"C","A","S","E"," ","W","H","E","N"," ","a","d","d","r","e","s","s"," ","I","S"," ","N","O","T"," ","N","U","L","L"," ","A","N","D"," ","L","E","N","G","T","H","(","a","d","d","r","e","s","s",")"," ",">"," ","1","0"," ","T","H","E","N"," ","\"","V","a","l","i","d"," ","A","d","d","r","e","s","s","\""," ","E","L","S","E"," ","\"","I","n","v","a","l","i","d"," ","A","d","d","r","e","s","s","\""," ","E","N","D">>
          ELSE IF col(<<"f","u","l","l","_","n","a","m","e">>)
          THEN <<"C","A","S","E"," ","W","H","E","N"," ","f","u","l","l","_","n","a","m","e"," ","I","S"," ","N","O","T"," ","N","U","L","L"," ","A","N","D"," ","L","E","N","G","T","H","(","f","u","l","l","_","n","a","m","e",")"," ",">"," ","3"," ","T","H","E","N"," ","\"","V","a","l","i","d"," ","N","a","m","e","\""," ","E","L","S","E"," ","\"","I","n","v","a","l","i","d"," ","N","a","m","e","\""," ","E","N","D">>
          ELSE <<"\"","V","a","l","i","d","\"">>
     ELSE IF Contains(U, <<"R","A","N","G","E","_","C","H","E","C","K">>)
     THEN IF col(<<"b","a","l","a","n","c","e">>) /\ Contains(Lower(logic), <<"b","a","l","a","n","c","e">>)
          THEN <<"C","A","S","E"," ","W","H","E","N"," ","b","a","l","a","n","c","e"," ",">","="," ","0"," ","A","N","D"," ","b","a","l","a","n","c","e"," ","<","="," ","1","0","0","0","0","0","0"," ","T","H","E","N"," ","\"","W","i","t","h","i","n"," ","R","a","n","g","e","\""," ","E","L","S","E"," ","\"","O","u","t"," ","o","f"," ","R","a","n","g","e","\""," ","E","N","D">>
          ELSE IF col(<<"a","m","o","u","n","t">>) /\ Contains(Lower(logic), <<"a","m","o","u","n","t">>)
          THEN <<"C","A","S","E"," ","W","H","E","N"," ","a","m","o","u","n","t"," ",">","="," ","0"," ","T","H","E","N"," ","\"","V","a","l","i","d"," ","A","m","o","u","n","t","\""," ","E","L","S","E"," ","\"","I","n","v","a","l","i","d"," ","A","m","o","u","n","t","\""," ","E","N","D">>
          ELSE <<"\"","W","i","t","h","i","n"," ","R","a","n","g","e","\"">>
     ELSE IF StartsWith(U, <<"C","O","N","C","A","T","(">>)
     THEN concat_sql(logic, available_columns)
     ELSE IF Contains(U, <<"F","O","R","M","A","T","_","D","A","T","E">>) /\ col(<<"t","r","a","n","s","a","c","t","i","o","n","_","d","a","t","e">>)
     THEN <<"F","O","R","M","A","T","_","D","A","T","E","(","\"","%","Y","-","%","m","\"",","," ","t","r","a","n","s","a","c","t","i","o","n","_","d","a","t","e",")">>
     ELSE IF StartsWith(U, <<"C","A","S","E"," ","W","H","E","N">>)
     THEN case_when_sql(logic, available_columns)
     ELSE simple_column_sql(logic, available_columns)

\* convert_business_logic_to_safe_sql(derivation_logic, source_table, _, _):
\* the column list, the strip, the try block and the except clause
convert_business_logic_to_safe_sql(derivation_logic, source_table) ==
  LET available_columns == available_columns_of(source_table)
      logic == Strip(derivation_logic)
      r == try_block(logic, available_columns)
  IN IF r = Exception THEN <<"1">> ELSE r

(***************************************************************************)
(* The query language as the compiled plans use it                         *)
(*                                                                         *)
(* A cell is NULL, an INT64, a FLOAT64 (held in thousandths) or a STRING.  *)
(***************************************************************************)
Null == [t |-> "null"]

Int64(n) == [t |-> "int", v |-> n]

\* a FLOAT64 given in thousandths: Float64(1005) is 1.005
Float64(m) == [t |-> "float", v |-> m]

Str(x) == [t |-> "str", v |-> x]

Scale == 1000

RECURSIVE NatStr(_)
\* the decimal digits of n >= 0 as a string
NatStr(n) == IF n < 10 THEN Digits[n + 1] ELSE NatStr(n \div 10) \o Digits[(n % 10) + 1]

\* the fraction digits of m thousandths: three digits, trailing zeros dropped,
\* one digit at least
FractionStr(m) ==
  LET f == m % Scale
  IN IF f % 100 = 0 THEN Digits[(f \div 100) + 1]
     ELSE IF f % 10 = 0 THEN Digits[(f \div 100) + 1] \o Digits[((f \div 10) % 10) + 1]
     ELSE Digits[(f \div 100) + 1] \o Digits[((f \div 10) % 10) + 1] \o Digits[(f % 10) + 1]

\* CAST(x AS STRING) of a cell that is not NULL: 1 gives "1", 1.0 gives "1.0"
CastString(x) ==
  IF x.t = "int" THEN NatStr(x.v)
  ELSE IF x.t = "float" THEN NatStr(x.v \div Scale) \o "." \o FractionStr(x.v)
  ELSE x.v

\* CAST(x AS FLOAT64) fails on a string that is not a number; the strings of
\* this model are names, never numbers
CastFloatFails(x) == x.t = "str"

\* CAST(x AS FLOAT64) in thousandths, for a numeric cell
CastFloat(x) == IF x.t = "int" THEN x.v * Scale ELSE x.v

Abs(n) == IF n < 0 THEN -n ELSE n

\* the tolerance 0.01 of the aggregation comparison, in thousandths
Tolerance == 10

(***************************************************************************)
(* sql_generator: the comparison, summary and final stages of the plans    *)
(* with a target                                                           *)
(***************************************************************************)
\* the five plans that join a source projection to a target
ComparisonPlans ==
  {"basic_aggregation", "basic_row", "enhanced_aggregation", "enhanced_row", "reference"}

IsAggregationPlan(kind) == kind \in {"basic_aggregation", "enhanced_aggregation"}

\* the number of key pairs in the ON clause of the FULL OUTER JOIN:
\* create_join_condition pairs every key, the basic and reference plans
\* write s.{source_keys[0]} = t.{target_keys[0]}
JoinWidth(kind, nkeys) ==
  IF kind \in {"enhanced_aggregation", "enhanced_row"} THEN nkeys ELSE 1

\* target_actual: WHERE {target_column} IS NOT NULL
target_actual(target_rows) == {r \in target_rows : r.val # Null}

NoRow == [key |-> <<>>, val |-> Null]

\* the ON clause
JoinOn(kind, nkeys, s, t) == \A k \in 1..JoinWidth(kind, nkeys) : s.key[k] = t.key[k]

\* FROM source s FULL OUTER JOIN target_actual t ON ...: the matched pairs,
\* the source rows without a partner and the target rows without a partner
FullOuterJoin(kind, nkeys, calc_rows, actual_rows) ==
  { [s |-> s, t |-> t] : <<s, t>> \in
        {st \in calc_rows \X actual_rows : JoinOn(kind, nkeys, st[1], st[2])} }
    \cup { [s |-> s, t |-> NoRow] : s \in
        {x \in calc_rows : \A t \in actual_rows : ~JoinOn(kind, nkeys, x, t)} }
    \cup { [s |-> NoRow, t |-> t] : t \in
        {x \in actual_rows : \A s \in calc_rows : ~JoinOn(kind, nkeys, s, x)} }

\* aggregation_validation_result with the boundary included (<= 0.01)
aggregation_validation_result_inclusive(calculated, actual) ==
  IF calculated = Null /\ actual = Null THEN "BOTH_NULL"
  ELSE IF calculated = Null THEN "SOURCE_NULL"
  ELSE IF actual = Null THEN "TARGET_NULL"
  ELSE IF Abs(CastFloat(calculated) - CastFloat(actual)) <= Tolerance THEN "MATCH"
  ELSE "MISMATCH"

\* the CASE of the aggregation plans (ABS of the FLOAT64 difference < 0.01)
aggregation_validation_result(calculated, actual) ==
  IF calculated = Null /\ actual = Null THEN "BOTH_NULL"
  ELSE IF calculated = Null THEN "SOURCE_NULL"
  ELSE IF actual = Null THEN "TARGET_NULL"
  ELSE IF Abs(CastFloat(calculated) - CastFloat(actual)) < Tolerance THEN "MATCH"
  ELSE "MISMATCH"

\* row_validation_result comparing numbers by value instead of by STRING cast
row_validation_result_by_value(calculated, actual) ==
  IF calculated = Null /\ actual = Null THEN "BOTH_NULL"
  ELSE IF calculated = Null THEN "SOURCE_NULL"
  ELSE IF actual = Null THEN "TARGET_NULL"
  ELSE IF calculated.t # "str" /\ actual.t # "str"
  THEN (IF CastFloat(calculated) = CastFloat(actual) THEN "MATCH" ELSE "MISMATCH")
  ELSE IF CastString(calculated) = CastString(actual) THEN "MATCH"
  ELSE "MISMATCH"

\* the CASE of the row-level plans (equality of the STRING casts)
row_validation_result(calculated, actual) ==
  IF calculated = Null /\ actual = Null THEN "BOTH_NULL"
  ELSE IF calculated = Null THEN "SOURCE_NULL"
  ELSE IF actual = Null THEN "TARGET_NULL"
  ELSE IF CastString(calculated) = CastString(actual) THEN "MATCH"
  ELSE "MISMATCH"

\* the CASE of the reference plan
reference_validation_result(lookup_result, actual) ==
  IF lookup_result = Null /\ actual = Null THEN "BOTH_NULL"
  ELSE IF lookup_result = Null THEN "LOOKUP_FAILED"
  ELSE IF actual = Null THEN "TARGET_NULL"
  ELSE IF CastString(lookup_result) = CastString(actual) THEN "MATCH"
  ELSE "MISMATCH"

validation_result(kind, calculated, actual) ==
  IF IsAggregationPlan(kind) THEN aggregation_validation_result(calculated, actual)
  ELSE IF kind = "reference" THEN reference_validation_result(calculated, actual)
  ELSE row_validation_result(calculated, actual)

\* the comparison CTE: every joined row with its validation_result
comparison_cte(kind, nkeys, calc_rows, target_rows) ==
  { [s |-> j.s, t |-> j.t, validation_result |-> validation_result(kind, j.s.val, j.t.val)] :
      j \in FullOuterJoin(kind, nkeys, calc_rows, target_actual(target_rows)) }

\* the query fails when a CAST AS FLOAT64 that the CASE reaches fails
comparison_fails(kind, nkeys, calc_rows, target_rows) ==
  /\ IsAggregationPlan(kind)
  /\ \E j \in FullOuterJoin(kind, nkeys, calc_rows, target_actual(target_rows)) :
        /\ j.s.val # Null /\ j.t.val # Null
        /\ (CastFloatFails(j.s.val) \/ CastFloatFails(j.t.val))

CountIf(rows, label) == Cardinality({r \in rows : r.validation_result = label})

\* the validation_summary CTE: COUNT(*) and the COUNTIFs each plan selects
\* (the two basic plans also select both_null_rows)
validation_summary(kind, rows) ==
  IF kind \in {"basic_aggregation", "basic_row"}
  THEN [ total_rows |-> Cardinality(rows),
         matching_rows |-> CountIf(rows, "MATCH"),
         mismatched_rows |-> CountIf(rows, "MISMATCH"),
         source_null_rows |-> CountIf(rows, "SOURCE_NULL"),
         target_null_rows |-> CountIf(rows, "TARGET_NULL"),
         both_null_rows |-> CountIf(rows, "BOTH_NULL") ]
  ELSE [ total_rows |-> Cardinality(rows),
         matching_rows |-> CountIf(rows, "MATCH"),
         mismatched_rows |-> CountIf(rows, "MISMATCH"),
         source_null_rows |-> IF kind = "reference" THEN CountIf(rows, "LOOKUP_FAILED")
                              ELSE CountIf(rows, "SOURCE_NULL"),
         target_null_rows |-> CountIf(rows, "TARGET_NULL") ]

\* ROUND(matching * 100.0 / NULLIF(total, 0), 2) in hundredths of a percent
\* (10000 is 100.0), for total > 0
percentage(matching, total) == ((matching * 10000 * 2) + total) \div (2 * total)

\* validation_status with a middle grade for plans that match half their rows
validation_status_graded(summary) ==
  IF summary.matching_rows = summary.total_rows THEN "PASS"
  ELSE IF summary.matching_rows * 2 >= summary.total_rows THEN "WARN"
  ELSE "FAIL"

\* the CASE of the final SELECT
validation_status(summary) ==
  IF summary.matching_rows = summary.total_rows THEN "PASS" ELSE "FAIL"

\* the final SELECT ... FROM validation_summary WHERE total_rows > 0: no row
\* or the one summary row; details keeps the numbers the CONCAT prints
summary_select(kind, summary) ==
  IF summary.total_rows > 0
  THEN << [ validation_status |-> validation_status(summary),
            row_count |-> summary.total_rows,
            percentage |-> percentage(summary.matching_rows, summary.total_rows),
            details |-> [ matches |-> summary.matching_rows,
                          mismatches |-> summary.mismatched_rows,
                          out_of |-> summary.total_rows ] ] >>
  ELSE <<>>

\* one row of the second SELECT of the basic row-level plan
MismatchSample ==
  [ validation_status |-> "MISMATCH_SAMPLE", row_count |-> 1, percentage |-> 0,
    details |-> [matches |-> 0, mismatches |-> 0, out_of |-> 0] ]

\* the rows of summary UNION ALL samples before the LIMIT, summary first
union_all(kind, summary) ==
  summary_select(kind, summary) \o
    (IF kind = "basic_row"
     THEN [k \in 1..summary.mismatched_rows |-> MismatchSample]
     ELSE <<>>)

\* the trailing LIMIT 3 of the basic row-level plan
SampleLimit == 3

\* the sequences r that keep, in order, the rows of u at the positions pos
Pick(u, pos) ==
  LET RECURSIVE Go(_, _)
      Go(k, acc) == IF k > Len(u) THEN acc
                    ELSE Go(k + 1, IF k \in pos THEN Append(acc, u[k]) ELSE acc)
  IN Go(1, <<>>)

\* the result sets the engine may return for the plan: the basic row-level plan
\* ends in UNION ALL ... LIMIT 3 without ORDER BY, so the engine may keep any
\* three rows of the union, in any order; the other plans return their summary
final_results(kind, summary) ==
  LET u == union_all(kind, summary)
  IN IF kind # "basic_row" THEN {u}
     ELSE IF Len(u) <= SampleLimit
     THEN {u, Pick(u, 2..Len(u)) \o Pick(u, {1})}
     ELSE { Pick(u, pos) : pos \in {q \in SUBSET (1..Len(u)) : Cardinality(q) = SampleLimit} }
            \cup { Pick(u, pos) \o Pick(u, {1}) :
                     pos \in {q \in SUBSET (2..Len(u)) : Cardinality(q) = SampleLimit - 1} }

(***************************************************************************)
(* sql_generator: key parsing and the three plan builders                  *)
(*                                                                         *)
(* A compiled query is the name of its SQL template with the texts the     *)
(* f-string puts into its holes; a builder yields [raised, error, plan].   *)
(***************************************************************************)
\* bool(str): the empty string is falsy
Truthy(s) == Len(s) > 0

\* [key.strip() for key in join_key_str.split(',')]
StripAll(parts) == [k \in 1..Len(parts) |-> Strip(parts[k])]

RECURSIVE NonEmpty(_)
\* [key for key in keys if key]
NonEmpty(keys) ==
  IF Len(keys) = 0 THEN <<>>
  ELSE (IF Truthy(keys[1]) THEN <<keys[1]>> ELSE <<>>) \o NonEmpty(Tail(keys))

\* parse_join_keys without its last line: the stripped segments, empty ones kept
parse_join_keys_keeping_empty(join_key_str) ==
  IF ~Truthy(join_key_str) THEN <<>>
  ELSE StripAll(Split(join_key_str, <<",">>))

\* parse_join_keys(join_key_str)
parse_join_keys(join_key_str) ==
  IF ~Truthy(join_key_str) THEN <<>>
  ELSE NonEmpty(StripAll(Split(join_key_str, <<",">>)))

\* create_join_condition without its length test: zip stops at the shorter list
create_join_condition_zip(source_keys, target_keys, source_alias, target_alias) ==
  LET n == IF Len(source_keys) < Len(target_keys) THEN Len(source_keys) ELSE Len(target_keys)
  IN [ raised |-> FALSE,
       error |-> <<>>,
       text |-> Join([k \in 1..n |->
                        source_alias \o <<".">> \o source_keys[k] \o <<" ","="," ">>
                          \o target_alias \o <<".">> \o target_keys[k]],
                     <<" ","A","N","D"," ">>) ]

\* create_join_condition(source_keys, target_keys, 's', 't'): the ValueError
\* with both counts, or the equalities joined by " AND "; zip pairs by position
create_join_condition(source_keys, target_keys, source_alias, target_alias) ==
  IF Len(source_keys) # Len(target_keys)
  THEN [ raised |-> TRUE,
         error |-> <<"S","o","u","r","c","e"," ","k","e","y","s"," ","(">> \o IntStr(Len(source_keys)) \o <<")"," ","a","n","d"," ","t","a","r","g","e","t"," ","k","e","y","s"," ","(">>
                     \o IntStr(Len(target_keys)) \o <<")"," ","c","o","u","n","t"," ","m","i","s","m","a","t","c","h">>,
         text |-> <<>> ]
  ELSE [ raised |-> FALSE,
         error |-> <<>>,
         text |-> Join([k \in 1..Len(source_keys) |->
                          source_alias \o <<".">> \o source_keys[k] \o <<" ","="," ">>
                            \o target_alias \o <<".">> \o target_keys[k]],
                       <<" ","A","N","D"," ">>) ]

\* any(func in derivation_logic.upper() for func in ['SUM(', 'COUNT(', ...])
is_aggregation(logic) ==
  \E f \in { <<"S","U","M","(">>, <<"C","O","U","N","T","(">>, <<"A","V","G","(">>, <<"M","A","X","(">>, <<"M","I","N","(">> } : Contains(Upper(logic), f)

NoPlan ==
  [ template |-> "none", source_table |-> <<>>, target_table |-> <<>>,
    key_select |-> <<>>, target_select |-> <<>>, fragment |-> <<>>,
    target_column |-> <<>>, on |-> <<>>, group_by |-> FALSE,
    reference_table |-> <<>>, lookup_on |-> <<>>, lookup_column |-> <<>>,
    text |-> <<>> ]

Built(plan) == [raised |-> FALSE, error |-> <<>>, plan |-> plan]

Raised(error) == [raised |-> TRUE, error |-> error, plan |-> NoPlan]

\* create_transformation_validation_sql: keys split on ',' and stripped, empty
\* segments kept; the ON clause names the first key pair only
create_transformation_validation_sql(source, target, source_join_key, target_join_key, target_column, logic) ==
  LET source_keys == StripAll(Split(source_join_key, <<",">>))
      target_keys == StripAll(Split(target_join_key, <<",">>))
      safe_derivation_logic == convert_business_logic_to_safe_sql(logic, source)
      agg == is_aggregation(logic)
      with_target == Truthy(target)
  IN Built([ NoPlan EXCEPT
       !.template = IF agg
                    THEN (IF with_target THEN "basic_aggregation" ELSE "basic_aggregation_quality")
                    ELSE (IF with_target THEN "basic_row" ELSE "basic_row_quality"),
       !.source_table = source,
       !.target_table = IF with_target THEN target ELSE <<>>,
       !.key_select = Join(source_keys, <<","," ">>),
       !.target_select = IF with_target THEN Join(target_keys, <<","," ">>) ELSE <<>>,
       !.fragment = safe_derivation_logic,
       !.target_column = target_column,
       !.group_by = agg,
       !.on = IF with_target
              THEN <<"s",".">> \o source_keys[1] \o <<" ","="," ","t",".">> \o target_keys[1]
              ELSE <<>> ])

\* create_enhanced_transformation_sql: parse_join_keys, the "-- Error" text for
\* an empty key list, the ON clause of create_join_condition in the two
\* templates with a target (the ValueError leaves the function)
create_enhanced_transformation_sql(source, target, source_join_key, target_join_key, target_column, logic) ==
  LET source_keys == parse_join_keys(source_join_key)
      target_keys == parse_join_keys(target_join_key)
      safe_derivation_logic == convert_business_logic_to_safe_sql(logic, source)
      agg == is_aggregation(logic)
      with_target == Truthy(target)
      join == create_join_condition(source_keys, target_keys, <<"s">>, <<"t">>)
  IN IF Len(source_keys) = 0 \/ Len(target_keys) = 0
     THEN Built([ NoPlan EXCEPT
            !.template = "invalid_join_keys",
            !.text = <<"-","-"," ","E","r","r","o","r",":"," ","I","n","v","a","l","i","d"," ","j","o","i","n"," ","k","e","y","s">> ])
     ELSE IF with_target /\ join.raised THEN Raised(join.error)
     ELSE Built([ NoPlan EXCEPT
            !.template = IF agg
                         THEN (IF with_target THEN "enhanced_aggregation"
                               ELSE "enhanced_aggregation_quality")
                         ELSE (IF with_target THEN "enhanced_row" ELSE "enhanced_row_quality"),
            !.source_table = source,
            !.target_table = IF with_target THEN target ELSE <<>>,
            !.key_select = Join(source_keys, <<","," ">>),
            !.target_select = IF with_target THEN Join(target_keys, <<","," ">>) ELSE <<>>,
            !.fragment = safe_derivation_logic,
            !.target_column = target_column,
            !.group_by = agg,
            !.on = IF with_target THEN join.text ELSE <<>> ])

\* x or y or z on strings: the first truthy one, else the last
FirstTruthy(x, y, z) == IF Truthy(x) THEN x ELSE IF Truthy(y) THEN y ELSE z

\* the error SELECT the except clause of the reference builder returns: a
\* query whose one row reads 'ERROR', 0, 0.0
ErrorSelect(error) ==
  Built([ NoPlan EXCEPT !.template = "error_select", !.text = error ])

\* create_reference_table_validation_sql: the reference template when a
\* reference table, reference keys and a target are given, else the enhanced
\* builder; any exception inside the try becomes the error SELECT
create_reference_table_validation_sql(source, target, source_join_key, target_join_key, target_column, logic, reference_table, reference_join_key, reference_lookup_column, reference_return_column) ==
  LET source_keys == IF Truthy(source_join_key) THEN parse_join_keys(source_join_key) ELSE <<>>
      target_keys == IF Truthy(target_join_key) THEN parse_join_keys(target_join_key) ELSE <<>>
      reference_keys == IF Truthy(reference_join_key) THEN parse_join_keys(reference_join_key)
                        ELSE <<>>
      first_source == IF Len(source_keys) > 0 THEN source_keys[1] ELSE <<"c","u","s","t","o","m","e","r","_","i","d">>
      enhanced == create_enhanced_transformation_sql(source, target, source_join_key,
                                                     target_join_key, target_column, logic)
  IN IF Truthy(reference_table) /\ Len(reference_keys) > 0 /\ Truthy(target)
     THEN IF Len(target_keys) = 0 /\ Len(source_keys) = 0
          THEN ErrorSelect(<<"l","i","s","t"," ","i","n","d","e","x"," ","o","u","t"," ","o","f"," ","r","a","n","g","e">>)
          ELSE Built([ NoPlan EXCEPT
                 !.template = "reference",
                 !.source_table = source,
                 !.target_table = target,
                 !.reference_table = reference_table,
                 !.lookup_on = <<"s",".">> \o first_source \o <<" ","="," ","r",".">> \o reference_keys[1],
                 !.lookup_column = FirstTruthy(reference_return_column,
                                               reference_lookup_column, reference_keys[1]),
                 !.key_select = first_source,
                 !.target_select = IF Len(target_keys) > 0 THEN Join(target_keys, <<","," ">>)
                                   ELSE source_keys[1],
                 !.target_column = target_column,
                 !.on = <<"s",".">> \o first_source \o <<" ","="," ","t",".">>
                          \o (IF Len(target_keys) > 0 THEN target_keys[1] ELSE source_keys[1]) ])
     ELSE IF enhanced.raised THEN ErrorSelect(enhanced.error)
     ELSE enhanced

(***************************************************************************)
(* The engine: what a compiled query returns on a database                 *)
(*                                                                         *)
(* A database maps a table name to [columns, rows]; a row maps a column    *)
(* name to a cell.  Key columns hold no NULL and one type per column.  The *)
(* engine evaluates the fragments the scenarios of this model compile to:  *)
(* 1, a column, CONCAT(first_name, " ", last_name), SUM(column), COUNT.    *)
(***************************************************************************)
RECURSIVE Flat(_)
\* the text of a str, as a column or table name of the database
Flat(s) == IF Len(s) = 0 THEN "" ELSE s[1] \o Flat(Tail(s))

Failed == [ok |-> FALSE, results |-> {}]

Returned(results) == [ok |-> TRUE, results |-> results]

\* the column names of a select list "a, b"
ColumnList(text) ==
  LET parts == Split(text, <<","," ">>)
  IN [k \in 1..Len(parts) |-> Flat(parts[k])]

\* the column pairs of an ON clause "s.a = t.x AND s.b = t.y"
OnPairs(on) ==
  LET conds == Split(on, <<" ","A","N","D"," ">>)
  IN [k \in 1..Len(conds) |->
        LET sides == Split(conds[k], <<" ","="," ">>)
        IN [ s |-> Flat(SubSeq(sides[1], 3, Len(sides[1]))),
             t |-> Flat(SubSeq(sides[Len(sides)], 3, Len(sides[Len(sides)]))) ]]

Range(f) == {f[k] : k \in DOMAIN f}

ConcatNames == <<"C","O","N","C","A","T","(","f","i","r","s","t","_","n","a","m","e",","," ","\""," ","\"",","," ","l","a","s","t","_","n","a","m","e",")">>

IsSum(fragment) ==
  /\ StartsWith(fragment, <<"S","U","M","(">>)
  /\ fragment[Len(fragment)] = ")"

SumColumn(fragment) == Flat(SubSeq(fragment, 5, Len(fragment) - 1))

\* the fragment compiles in a SELECT without GROUP BY
RowFragmentOk(fragment, columns) ==
  \/ fragment = <<"1">>
  \/ fragment = ConcatNames /\ {"first_name", "last_name"} \subseteq columns
  \/ Flat(fragment) \in columns

\* CONCAT of a NULL is NULL
EvalRowFragment(fragment, row) ==
  IF fragment = <<"1">> THEN Int64(1)
  ELSE IF fragment = ConcatNames
  THEN (IF row["first_name"] = Null \/ row["last_name"] = Null THEN Null
        ELSE Str(row["first_name"].v \o " " \o row["last_name"].v))
  ELSE row[Flat(fragment)]

\* the fragment compiles in a SELECT with GROUP BY keycols
GroupFragmentOk(fragment, columns, keycols) ==
  \/ fragment = <<"1">>
  \/ fragment = <<"C","O","U","N","T","(","*",")">>
  \/ IsSum(fragment) /\ SumColumn(fragment) \in columns
  \/ Flat(fragment) \in Range(keycols)

RECURSIVE SumCells(_, _)
\* the sum of the INT64 column over the rows
SumCells(rows, column) ==
  IF rows = {} THEN 0
  ELSE LET r == CHOOSE x \in rows : TRUE
       IN r[column].v + SumCells(rows \ {r}, column)

\* SUM skips NULLs and is NULL over no value
EvalGroupFragment(fragment, rows) ==
  IF fragment = <<"1">> THEN Int64(1)
  ELSE IF fragment = <<"C","O","U","N","T","(","*",")">> THEN Int64(Cardinality(rows))
  ELSE IF IsSum(fragment)
  THEN LET present == {r \in rows : r[SumColumn(fragment)] # Null}
       IN IF present = {} THEN Null ELSE Int64(SumCells(present, SumColumn(fragment)))
  ELSE (CHOOSE r \in rows : TRUE)[Flat(fragment)]

IsReference(plan) == plan.template = "reference"

HasTarget(plan) == plan.template \in ComparisonPlans

\* every table and column the query names exists, and the fragment compiles
PlanResolves(plan, db) ==
  /\ Flat(plan.source_table) \in DOMAIN db
  /\ LET source == db[Flat(plan.source_table)]
         keycols == ColumnList(plan.key_select)
     IN /\ Range(keycols) \subseteq source.columns
        /\ IF IsReference(plan)
           THEN /\ Flat(plan.reference_table) \in DOMAIN db
                /\ Flat(plan.lookup_column) \in db[Flat(plan.reference_table)].columns
                /\ \A p \in Range(OnPairs(plan.lookup_on)) :
                     /\ p.s \in source.columns
                     /\ p.t \in db[Flat(plan.reference_table)].columns
           ELSE IF plan.group_by
           THEN GroupFragmentOk(plan.fragment, source.columns, keycols)
           ELSE RowFragmentOk(plan.fragment, source.columns)
        /\ HasTarget(plan) =>
             /\ Flat(plan.target_table) \in DOMAIN db
             /\ LET target == db[Flat(plan.target_table)]
                IN /\ Range(ColumnList(plan.target_select)) \subseteq target.columns
                   /\ Flat(plan.target_column) \in target.columns
                   /\ \A p \in Range(OnPairs(plan.on)) :
                        /\ p.s \in (IF IsReference(plan) THEN source.columns ELSE Range(keycols))
                        /\ p.t \in Range(ColumnList(plan.target_select))

\* the cells of the row under the columns of one side of the ON clause
JoinKey(row, pairs, side) == [k \in 1..Len(pairs) |-> row[pairs[k][side]]]

\* the source CTE: one row per source row, one row per group under GROUP BY,
\* one row per source row and matching reference row in the reference plan
\* (LEFT JOIN: NULL where no reference row matches)
source_cte(plan, db) ==
  LET source == db[Flat(plan.source_table)]
      keycols == ColumnList(plan.key_select)
      pairs == IF HasTarget(plan) THEN OnPairs(plan.on) ELSE <<>>
      Group(row) == {x \in source.rows : \A k \in 1..Len(keycols) : x[keycols[k]] = row[keycols[k]]}
  IN IF IsReference(plan)
     THEN LET ref == db[Flat(plan.reference_table)]
              lookup == OnPairs(plan.lookup_on)
              Hits(row) == {r \in ref.rows : \A p \in Range(lookup) : row[p.s] = r[p.t]}
          IN { [key |-> JoinKey(row, pairs, "s"), val |-> r[Flat(plan.lookup_column)],
                rid |-> <<row, r>>] : <<row, r>> \in {x \in source.rows \X ref.rows : x[2] \in Hits(x[1])} }
             \cup { [key |-> JoinKey(row, pairs, "s"), val |-> Null, rid |-> <<row>>] :
                      row \in {x \in source.rows : Hits(x) = {}} }
     ELSE IF plan.group_by
     THEN { [key |-> JoinKey(CHOOSE x \in g : TRUE, pairs, "s"),
             val |-> EvalGroupFragment(plan.fragment, g), rid |-> g] :
              g \in {Group(row) : row \in source.rows} }
     ELSE { [key |-> JoinKey(row, pairs, "s"),
             val |-> EvalRowFragment(plan.fragment, row), rid |-> row] : row \in source.rows }

\* the rows of the target table as the target_actual CTE reads them
target_cte(plan, db) ==
  { [key |-> JoinKey(row, OnPairs(plan.on), "t"), val |-> row[Flat(plan.target_column)],
     rid |-> row] : row \in db[Flat(plan.target_table)].rows }

\* LIKE '%error%' on the strings of this model
LikeError(x) == x.t = "str" /\ x.v \in {"error", "load error"}

\* the two aggregation quality summaries CAST the value AS FLOAT64
quality_fails(template, calc_rows) ==
  /\ template \in {"basic_aggregation_quality", "enhanced_aggregation_quality"}
  /\ \E r \in calc_rows : r.val # Null /\ CastFloatFails(r.val)

\* the share of non-NULL values a quality plan asks for, in percent
quality_threshold(template) == IF template = "basic_aggregation_quality" THEN 90 ELSE 95

\* the summary and final SELECT of the four plans without a target
quality_select(template, calc_rows) ==
  LET total == Cardinality(calc_rows)
      non_null == Cardinality({r \in calc_rows : r.val # Null})
      empty_values == Cardinality({r \in calc_rows : r.val # Null /\ CastString(r.val) = ""})
      error_values == Cardinality({r \in calc_rows : r.val # Null /\ LikeError(r.val)})
      enough == non_null * 100 >= total * quality_threshold(template)
      pass == IF template = "basic_row_quality" THEN enough /\ error_values = 0
              ELSE IF template = "enhanced_row_quality" THEN enough /\ empty_values = 0
              ELSE enough
  IN IF total > 0
     THEN << [ validation_status |-> IF pass THEN "PASS" ELSE "FAIL",
               row_count |-> total,
               percentage |-> percentage(non_null, total),
               details |-> [valid |-> non_null, out_of |-> total] ] >>
     ELSE <<>>

\* the one row of the error SELECT
ErrorRow ==
  [ validation_status |-> "ERROR", row_count |-> 0, percentage |-> 0,
    details |-> [matches |-> 0, mismatches |-> 0, out_of |-> 0] ]

\* the engine on a compiled query: a failure, or the result sets it may return
RunQuery(plan, database) ==
  IF plan.template = "invalid_join_keys" THEN Failed
  ELSE IF plan.template = "error_select" THEN Returned({<< ErrorRow >>})
  ELSE IF ~PlanResolves(plan, database) THEN Failed
  ELSE IF HasTarget(plan)
  THEN LET n == Len(OnPairs(plan.on))
           s_rows == source_cte(plan, database)
           t_rows == target_cte(plan, database)
       IN IF comparison_fails(plan.template, n, s_rows, t_rows) THEN Failed
          ELSE Returned(final_results(plan.template,
                 validation_summary(plan.template,
                   comparison_cte(plan.template, n, s_rows, t_rows))))
  ELSE IF quality_fails(plan.template, source_cte(plan, database)) THEN Failed
  ELSE Returned({quality_select(plan.template, source_cte(plan, database))})

(***************************************************************************)
(* bigquery_client and excel_handler: one scenario of the batch            *)
(***************************************************************************)
\* str(x).lower() not in ['nan', 'none', ''] after the truthiness test
Declared(x) == Truthy(x) /\ Lower(x) \notin { <<"n","a","n">>, <<"n","o","n","e">>, <<>> }

\* the if / elif / else that picks the builder for a scenario
generate_sql(scenario) ==
  IF Declared(scenario.reference_table)
  THEN create_reference_table_validation_sql(
         scenario.source_table, scenario.target_table, scenario.source_join_key,
         scenario.target_join_key, scenario.target_column, scenario.derivation_logic,
         scenario.reference_table, scenario.reference_join_key,
         scenario.reference_lookup_column, scenario.reference_return_column)
  ELSE IF Declared(scenario.target_table)
  THEN create_enhanced_transformation_sql(
         scenario.source_table, scenario.target_table, scenario.source_join_key,
         scenario.target_join_key, scenario.target_column, scenario.derivation_logic)
  ELSE create_transformation_validation_sql(
         scenario.source_table, scenario.target_table, scenario.source_join_key,
         scenario.target_join_key, scenario.target_column, scenario.derivation_logic)

NoResult == [status |-> "None", data |-> <<>>, error |-> <<>>]

EngineError == <<"e","n","g","i","n","e"," ","e","r","r","o","r">>

\* bigquery_client.execute_custom_query: None when the session is not connected;
\* else the success dict with the rows, or the error dict when client.query or
\* job.result raises, which a call to a remote engine may always do
execute_custom_query(plan, database, status) ==
  IF status # "connected" THEN {NoResult}
  ELSE { [status |-> "error", data |-> <<>>, error |-> EngineError] }
         \cup { [status |-> "success", data |-> rows, error |-> <<>>] :
                  rows \in RunQuery(plan, database).results }

\* the query reaches client.query
Submits(status) == status = "connected"

ErrorRecord(scenario, error_message) ==
  [ scenario_name |-> scenario.scenario_name, status |-> "ERROR", total_records |-> 0,
    passed_records |-> 0, error_message |-> error_message, result_data |-> <<>> ]

\* status read from the rows as streamlit_app reads it: PASS when rows came back
result_record_by_rows(scenario, query_result) ==
  IF query_result.status = "success"
  THEN [ scenario_name |-> scenario.scenario_name,
         status |-> IF Len(query_result.data) > 0 THEN "PASS" ELSE "FAIL",
         total_records |-> Len(query_result.data),
         passed_records |-> Len(query_result.data),
         error_message |-> <<>>, result_data |-> query_result.data ]
  ELSE ErrorRecord(scenario, query_result.error)

\* result_record with an orchestrator that takes a result without rows for a
\* failure, as the adapter of streamlit_app does
result_record_empty_is_error(scenario, query_result) ==
  IF query_result.status = "success"
  THEN IF Len(query_result.data) > 0
       THEN LET first == query_result.data[1]
            IN [ scenario_name |-> scenario.scenario_name,
                 status |-> first.validation_status,
                 total_records |-> first.row_count,
                 passed_records |-> IF first.validation_status = "PASS"
                                    THEN first.row_count ELSE 0,
                 error_message |-> <<>>, result_data |-> query_result.data ]
       ELSE ErrorRecord(scenario, <<"Q","u","e","r","y"," ","r","e","t","u","r","n","e","d"," ","n","o"," ","r","e","s","u","l","t","s">>)
  ELSE IF query_result.status = "error" THEN ErrorRecord(scenario, query_result.error)
  ELSE ErrorRecord(scenario, <<"Q","u","e","r","y"," ","e","x","e","c","u","t","i","o","n"," ","f","a","i","l","e","d">>)

\* the record excel_handler appends for a query result: the first row's
\* validation_status and row_count; PASS with 0 of 0 for no row; ERROR with the
\* engine's message, or 'Query execution failed' for None
result_record(scenario, query_result) ==
  IF query_result.status = "success"
  THEN IF Len(query_result.data) > 0
       THEN LET first == query_result.data[1]
            IN [ scenario_name |-> scenario.scenario_name,
                 status |-> first.validation_status,
                 total_records |-> first.row_count,
                 passed_records |-> IF first.validation_status = "PASS"
                                    THEN first.row_count ELSE 0,
                 error_message |-> <<>>, result_data |-> query_result.data ]
       ELSE [ scenario_name |-> scenario.scenario_name, status |-> "PASS",
              total_records |-> 0, passed_records |-> 0,
              error_message |-> <<>>, result_data |-> <<>> ]
  ELSE IF query_result.status = "error" THEN ErrorRecord(scenario, query_result.error)
  ELSE ErrorRecord(scenario, <<"Q","u","e","r","y"," ","e","x","e","c","u","t","i","o","n"," ","f","a","i","l","e","d">>)

(***************************************************************************)
(* State                                                                   *)
(***************************************************************************)
VARIABLES
  derivation_logic,   \* classifier call: the derivation_logic argument
  source_table,       \* classifier call: the source_table argument
  safe_sql,           \* classifier call: [raised, sql] once the call is over
  cpc,                \* classifier call: "call" before, "done" after
  plan_kind,          \* plan run: which of the comparison plans is executed
  nkeys,              \* plan run: the number of declared key pairs
  calc_rows,          \* plan run: the rows of the source projection CTE
  target_rows,        \* plan run: the rows of the target table
  comparison,         \* plan run: the rows of the comparison CTE
  summary,            \* plan run: the row of the validation_summary CTE
  result_rows,        \* plan run: the rows the query returns
  qpc,                \* plan run: "start", "compared", "summarized", "returned", "failed"
  entry,              \* batch: the module whose execute_all_excel_scenarios runs
  scenarios,          \* batch: st.session_state['excel_scenarios']
  db,                 \* batch: the tables of the dataset
  connection_status,  \* batch: st.session_state.connection_status
  test_scenarios,     \* batch: st.session_state.test_scenarios, "None" or "client"
  results,            \* batch: the local list results of excel_handler
  scenario_results,   \* batch: st.session_state['scenario_results']
  submitted,          \* batch: the queries handed to the engine, in order
  answers,            \* batch: what bigquery_client.execute_custom_query returned, in order
  opc,                \* batch: "loop", "done", "aborted"
  join_key_str,       \* key call: the argument of parse_join_keys
  source_keys_arg,        \* key call: create_join_condition's source_keys
  target_keys_arg,        \* key call: create_join_condition's target_keys
  source_alias,       \* key call: create_join_condition's source_alias
  target_alias,       \* key call: create_join_condition's target_alias
  keys,               \* key call: the list parse_join_keys returned
  condition,          \* key call: [raised, error, text] of create_join_condition
  kpc,                \* key call: "parse", "join" before, "parsed", "joined" after
  sheet_columns,      \* sheet: df.columns, the column names of the sheet
  sheet_rows,         \* sheet: the rows of df, each a record of cells
  row_index,          \* sheet: the number of rows the for loop has taken
  generated,          \* sheet: the local list scenarios
  spc,                \* sheet: "rows" in the loop, "returned" after
  builder,            \* builder call: "basic" or "enhanced"
  args,               \* builder call: the arguments, a record by parameter name
  built,              \* builder call: [raised, error, plan] once the call is over
  bpc,                \* builder call: "call" before, "built" after
  sql_queries,        \* run: the sql_query of each pass, as its builder returns it
  engine_answers      \* run: what execute_custom_query may return for each pass

classifier_vars == << derivation_logic, source_table, safe_sql, cpc >>

plan_vars == << plan_kind, nkeys, calc_rows, target_rows, comparison, summary, result_rows, qpc >>

batch_vars ==
  << entry, scenarios, db, connection_status, test_scenarios, results, scenario_results,
     submitted, answers, opc >>

keys_vars ==
  << join_key_str, source_keys_arg, target_keys_arg, source_alias, target_alias, keys, condition, kpc >>

\* the variables of the calls checked on their own
sheet_vars == << sheet_columns, sheet_rows, row_index, generated, spc >>

compile_vars == << builder, args, built, bpc >>

run_vars == << sql_queries, engine_answers >>

call_vars == << keys_vars, sheet_vars, compile_vars, run_vars >>

vars == << classifier_vars, plan_vars, batch_vars, call_vars >>

ClassifierIdle ==
  /\ derivation_logic = [isstr |-> FALSE, s |-> <<>>]
  /\ source_table = [isstr |-> FALSE, s |-> <<>>]
  /\ safe_sql = [raised |-> FALSE, sql |-> <<>>]
  /\ cpc = "idle"

NoSummary ==
  [total_rows |-> 0, matching_rows |-> 0, mismatched_rows |-> 0,
   source_null_rows |-> 0, target_null_rows |-> 0]

PlanIdle ==
  /\ plan_kind = "none"
  /\ nkeys = 0
  /\ calc_rows = {}
  /\ target_rows = {}
  /\ comparison = {}
  /\ summary = NoSummary
  /\ result_rows = <<>>
  /\ qpc = "idle"

BatchIdle ==
  /\ entry = "none"
  /\ scenarios = <<>>
  /\ db = <<>>
  /\ connection_status = "None"
  /\ test_scenarios = "None"
  /\ results = <<>>
  /\ scenario_results = <<>>
  /\ submitted = <<>>
  /\ answers = <<>>
  /\ opc = "idle"

NoCondition == [raised |-> FALSE, error |-> <<>>, text |-> <<>>]

KeysIdle ==
  /\ join_key_str = <<>>
  /\ source_keys_arg = <<>>
  /\ target_keys_arg = <<>>
  /\ source_alias = <<>>
  /\ target_alias = <<>>
  /\ keys = <<>>
  /\ condition = NoCondition
  /\ kpc = "idle"

SheetIdle ==
  /\ sheet_columns = {}
  /\ sheet_rows = <<>>
  /\ row_index = 0
  /\ generated = <<>>
  /\ spc = "idle"

CompileIdle ==
  /\ builder = "none"
  /\ args = <<>>
  /\ built = Built(NoPlan)
  /\ bpc = "idle"

RunIdle ==
  /\ sql_queries = <<>>
  /\ engine_answers = <<>>

CallsIdle == KeysIdle /\ SheetIdle /\ CompileIdle /\ RunIdle

\* a Python value passed as an argument: a str, or a value that is not a str
\* (a blank spreadsheet cell read by pandas is the float NaN)
PyStr(s) == [isstr |-> TRUE, s |-> s]

NaN == [isstr |-> FALSE, s |-> <<>>]

(***************************************************************************)
(* Classifier calls: convert_business_logic_to_safe_sql on bounded inputs  *)
(***************************************************************************)
\* every column name of the three catalogued tables
CatalogColumns ==
  {customers_columns[k] : k \in 1..Len(customers_columns)}
    \cup {transactions_columns[k] : k \in 1..Len(transactions_columns)}
    \cup {account_profiles_columns[k] : k \in 1..Len(account_profiles_columns)}

PatternLogic ==
  { <<"S","U","M","(","a","m","o","u","n","t",")"," ","G","R","O","U","P","_","B","Y"," ","a","c","c","o","u","n","t","_","n","u","m","b","e","r">>,
    <<"S","U","M","(","b","a","l","a","n","c","e",")"," ","G","R","O","U","P","_","B","Y"," ","c","u","s","t","o","m","e","r","_","i","d">>,
    <<"s","u","m","(","p","r","o","c","e","s","s","i","n","g","_","f","e","e",")"," ","g","r","o","u","p","_","b","y"," ","a","c","c","o","u","n","t","_","n","u","m","b","e","r">>,
    <<"C","O","U","N","T","(","t","r","a","n","s","a","c","t","i","o","n","_","i","d",")"," ","G","R","O","U","P","_","B","Y"," ","a","c","c","o","u","n","t","_","n","u","m","b","e","r">>,
    <<"A","V","G","(","b","a","l","a","n","c","e",")"," ","G","R","O","U","P","_","B","Y"," ","a","c","c","o","u","n","t","_","t","y","p","e">>,
    <<"M","A","X","(","b","a","l","a","n","c","e",")"," ","G","R","O","U","P","_","B","Y"," ","a","c","c","o","u","n","t","_","t","y","p","e">>,
    <<"M","I","N","(","a","m","o","u","n","t",")"," ","G","R","O","U","P","_","B","Y"," ","c","h","a","n","n","e","l">>,
    <<"S","U","M","(","r","i","s","k","_","s","c","o","r","e",")"," ","G","R","O","U","P","_","B","Y"," ","a","c","c","o","u","n","t","_","t","y","p","e">>,
    <<"A","V","G","(","r","i","s","k","_","s","c","o","r","e",")"," ","G","R","O","U","P","_","B","Y"," ","a","c","c","o","u","n","t","_","t","y","p","e">>,
    <<"C","O","N","C","A","T","(","f","i","r","s","t","_","n","a","m","e",","," ","C","H","E","C","K","_","N","O","T","_","N","U","L","L","(","l","a","s","t","_","n","a","m","e",")",")">>,
    <<"C","O","N","C","A","T","(","c","i","t","y",","," ","\""," ","R","A","N","G","E","_","C","H","E","C","K","\"",")">>,
    <<"C","A","S","E"," ","W","H","E","N"," ","R","A","N","G","E","_","C","H","E","C","K","(","b","a","l","a","n","c","e",")"," ","T","H","E","N"," ","\"","a","\""," ","E","L","S","E"," ","\"","b","\""," ","E","N","D">>,
    <<"C","A","S","E"," ","W","H","E","N"," ","V","A","L","I","D","A","T","E","_","E","M","A","I","L","_","F","O","R","M","A","T","(","a","d","d","r","e","s","s",")"," ","T","H","E","N"," ","1"," ","E","L","S","E"," ","0"," ","E","N","D">>,
    <<"S","U","M","(","a","m","o","u","n","t",")">>,
    <<"I","F","(","b","a","l","a","n","c","e"," ",">"," ","5","0","0","0","0",","," ","\"","P","r","e","m","i","u","m","\"",","," ","\"","S","t","a","n","d","a","r","d","\"",")">>,
    <<"I","F","(","a","m","o","u","n","t"," ",">"," ","1","0","0","0","0",","," ","\"","H","i","g","h"," ","R","i","s","k","\"",","," ","\"","N","o","r","m","a","l","\"",")">>,
    <<"C","H","E","C","K","_","N","O","T","_","N","U","L","L","(","c","u","s","t","o","m","e","r","_","i","d",","," ","e","m","a","i","l",")">>,
    <<"C","H","E","C","K","_","N","O","T","_","N","U","L","L","(","p","h","o","n","e",")">>,
    <<"C","H","E","C","K","_","N","O","T","_","N","U","L","L">>,
    <<"V","A","L","I","D","A","T","E","_","E","M","A","I","L","_","F","O","R","M","A","T","(","e","m","a","i","l",")">>,
    <<"R","A","N","G","E","_","C","H","E","C","K","(","b","a","l","a","n","c","e",","," ","m","i","n","_","v","a","l","u","e","=","0",","," ","m","a","x","_","v","a","l","u","e","=","1","0","0","0","0","0","0",")">>,
    <<"R","A","N","G","E","_","C","H","E","C","K","(","r","i","s","k","_","s","c","o","r","e",","," ","m","i","n","_","v","a","l","u","e","=","3","0","0",","," ","m","a","x","_","v","a","l","u","e","=","8","5","0",")">>,
    <<"R","A","N","G","E","_","C","H","E","C","K","(","b","a","l","a","n","c","e",","," ","m","i","n","_","v","a","l","u","e","=","1","0","0",","," ","m","a","x","_","v","a","l","u","e","=","5","0","0",")">>,
    <<"R","A","N","G","E","_","C","H","E","C","K","(","a","m","o","u","n","t",","," ","m","i","n","_","v","a","l","u","e","=","1",","," ","m","a","x","_","v","a","l","u","e","=","9",")">>,
    <<"R","A","N","G","E","_","C","H","E","C","K","(","f","e","e",","," ","m","i","n","_","v","a","l","u","e","=","0",","," ","m","a","x","_","v","a","l","u","e","=","9",")">>,
    <<"C","O","N","C","A","T","(","f","i","r","s","t","_","n","a","m","e",","," ","\""," ","\"",","," ","l","a","s","t","_","n","a","m","e",")">>,
    <<"C","O","N","C","A","T","(","c","i","t","y",","," ","\"",","," ","\"",","," ","s","t","a","t","e",")">>,
    <<"F","O","R","M","A","T","_","D","A","T","E","(","\"","%","Y","-","%","m","\"",","," ","t","r","a","n","s","a","c","t","i","o","n","_","d","a","t","e",")">>,
    <<"C","A","S","E"," ","W","H","E","N"," ","b","a","l","a","n","c","e"," ",">"," ","5","0","0","0","0"," ","T","H","E","N"," ","\"","L","O","W","\""," ","E","L","S","E"," ","\"","H","I","G","H","\""," ","E","N","D">>,
    <<"C","A","S","E"," ","W","H","E","N"," ","a","m","o","u","n","t"," ",">"," ","0"," ","T","H","E","N"," ","\"","C","r","e","d","i","t","\""," ","E","L","S","E"," ","\"","D","e","b","i","t","\""," ","E","N","D">>,
    <<"C","A","S","E"," ","W","H","E","N"," ","a","g","e"," ","<"," ","2","5"," ","T","H","E","N"," ","\"","Y","o","u","n","g","\""," ","W","H","E","N"," ","a","g","e"," ","<"," ","6","5"," ","T","H","E","N"," ","\"","A","d","u","l","t","\""," ","E","L","S","E"," ","\"","S","e","n","i","o","r","\""," ","E","N","D">>,
    <<"C","A","S","E"," ","W","H","E","N"," ","r","i","s","k","_","s","c","o","r","e"," ",">"," ","7","0","0"," ","A","N","D"," ","t","e","n","u","r","e"," ",">"," ","5"," ","T","H","E","N"," ","\"","A","\""," ","E","L","S","E"," ","\"","B","\""," ","E","N","D">>,
    <<"C","A","S","E"," ","W","H","E","N"," ","v","i","p"," ","="," ","1"," ","T","H","E","N"," ","\"","G","o","l","d","\""," ","E","L","S","E"," ","\"","N","o","n","e","\""," ","E","N","D">>,
    <<"C","A","S","E"," ","W","H","E","N"," ","b","a","l","a","n","c","e"," ","<"," ","5","0","0"," ","T","H","E","N"," ","\"","B","a","s","i","c","\""," ","W","H","E","N"," ","b","a","l","a","n","c","e"," ","<"," ","5","0","0","0"," ","T","H","E","N"," ","\"","S","t","a","n","d","a","r","d","\""," ","E","L","S","E"," ","\"","P","r","e","m","i","u","m","\""," ","E","N","D">>,
    <<"C","A","S","E"," ","W","H","E","N"," ","a","m","o","u","n","t"," ",">"," ","0"," ","A","N","D"," ","s","t","a","t","u","s"," ","="," ","\"","O","K","\""," ","T","H","E","N"," ","\"","C","r","e","d","i","t","\""," ","E","L","S","E"," ","\"","D","e","b","i","t","\""," ","E","N","D">>,
    <<"c","a","s","e"," ","w","h","e","n"," ","r","i","s","k","_","s","c","o","r","e"," ",">"," ","7","0","0"," ","t","h","e","n"," ","\"","A","\""," ","e","l","s","e"," ","\"","B","\""," ","e","n","d">>,
    <<"U","P","P","E","R","(","c","i","t","y",")">>,
    <<"F","R","O","B","N","I","C","A","T","E","(","x",")">>,
    <<"p","r","i","c","e"," ","*"," ","q","u","a","n","t","i","t","y">>,
    <<" "," ","b","a","l","a","n","c","e"," ">>,
    <<"B","A","L","A","N","C","E">>,
    <<"A","c","c","o","u","n","t","_","S","t","a","t","u","s">> }

LogicInputs == PatternLogic \cup CatalogColumns

TableInputs ==
  { <<"c","u","s","t","o","m","e","r","s">>, <<"t","r","a","n","s","a","c","t","i","o","n","s">>, <<"a","c","c","o","u","n","t","_","p","r","o","f","i","l","e","s">>, <<"C","u","s","t","o","m","e","r","s">>, <<"o","r","d","e","r","s">> }

ClassifierInit ==
  /\ derivation_logic \in {PyStr(l) : l \in LogicInputs} \cup {NaN}
  /\ source_table \in {PyStr(t) : t \in TableInputs}
  /\ safe_sql = [raised |-> FALSE, sql |-> <<>>]
  /\ cpc = "call"
  /\ PlanIdle
  /\ BatchIdle
  /\ CallsIdle

\* one call of convert_business_logic_to_safe_sql: source_table.lower() and
\* derivation_logic.strip() stand before the try and raise AttributeError on a
\* value that is not a str
Classify ==
  /\ cpc = "call"
  /\ safe_sql' =
       IF ~source_table.isstr \/ ~derivation_logic.isstr
       THEN [raised |-> TRUE, sql |-> <<>>]
       ELSE [raised |-> FALSE,
             sql |-> convert_business_logic_to_safe_sql(derivation_logic.s, source_table.s)]
  /\ cpc' = "done"
  /\ UNCHANGED << derivation_logic, source_table, plan_vars, batch_vars, call_vars >>

ClassifierNext == Classify

SpecClassifier == ClassifierInit /\ [][ClassifierNext]_vars

\* the result as text, for reading traces
ShowSql == safe_sql.sql


(***************************************************************************)
(* Properties of the classifier                                            *)
(***************************************************************************)
\* the catalog's column list of a table, as a set; empty for a table that is
\* not catalogued
KnownColumns(table) ==
  LET t == Lower(table)
      list == IF t = <<"c","u","s","t","o","m","e","r","s">> THEN customers_columns
              ELSE IF t = <<"t","r","a","n","s","a","c","t","i","o","n","s">> THEN transactions_columns
              ELSE IF t = <<"a","c","c","o","u","n","t","_","p","r","o","f","i","l","e","s">> THEN account_profiles_columns
              ELSE <<>>
  IN {list[k] : k \in 1..Len(list)}

IsIdentStart(c) == IndexIn(c, LowerLetters) > 0 \/ IndexIn(c, UpperLetters) > 0 \/ c = "_"

IsIdentChar(c) == IsIdentStart(c) \/ IndexIn(c, Digits) > 0

\* position k of s lies inside a double-quoted literal
InsideLiteral(s, k) == Cardinality({j \in 1..(k-1) : s[j] = "\""}) % 2 = 1

\* words of the query language that are not column names
SqlWords ==
  { <<"C","A","S","E">>, <<"W","H","E","N">>, <<"T","H","E","N">>, <<"E","L","S","E">>, <<"E","N","D">>, <<"I","S">>, <<"N","O","T">>, <<"N","U","L","L">>,
    <<"A","N","D">>, <<"O","R">>, <<"L","E","N","G","T","H">>, <<"C","O","N","C","A","T">>, <<"S","U","M">>, <<"C","O","U","N","T">>, <<"A","V","G">>,
    <<"M","A","X">>, <<"M","I","N">>, <<"F","O","R","M","A","T","_","D","A","T","E">> }

\* the identifiers of a fragment that stand for columns: maximal runs of
\* identifier characters outside literals that are not words of the language
ColumnsReferenced(sql) ==
  { Lower(SubSeq(sql, a, b)) : <<a, b>> \in
      { ab \in (1..Len(sql)) \X (1..Len(sql)) :
          /\ ab[1] <= ab[2]
          /\ IsIdentStart(sql[ab[1]])
          /\ \A j \in ab[1]..ab[2] : IsIdentChar(sql[j])
          /\ (ab[1] = 1 \/ ~IsIdentChar(sql[ab[1] - 1]))
          /\ (ab[2] = Len(sql) \/ ~IsIdentChar(sql[ab[2] + 1]))
          /\ ~InsideLiteral(sql, ab[1])
          /\ Upper(SubSeq(sql, ab[1], ab[2])) \notin SqlWords } }

\* the logic is taken by one of the classifier's pattern rules (every rule
\* before the two column-name rules)
MatchesPattern(logic, table) ==
  LET U == Upper(Strip(logic))
  IN \/ \E f \in { <<"S","U","M","(">>, <<"C","O","U","N","T","(">>, <<"A","V","G","(">> } : StartsWith(U, f) /\ Contains(U, <<"G","R","O","U","P","_","B","Y">>)
     \/ StartsWith(U, <<"I","F","(">>)
     \/ Contains(U, <<"C","H","E","C","K","_","N","O","T","_","N","U","L","L">>)
     \/ Contains(U, <<"V","A","L","I","D","A","T","E","_","E","M","A","I","L","_","F","O","R","M","A","T">>)
     \/ Contains(U, <<"V","A","L","I","D","A","T","E","_","A","D","D","R","E","S","S","_","F","O","R","M","A","T">>)
     \/ Contains(U, <<"R","A","N","G","E","_","C","H","E","C","K">>)
     \/ StartsWith(U, <<"C","O","N","C","A","T","(">>)
     \/ (Contains(U, <<"F","O","R","M","A","T","_","D","A","T","E">>) /\ <<"t","r","a","n","s","a","c","t","i","o","n","_","d","a","t","e">> \in KnownColumns(table))
     \/ StartsWith(U, <<"C","A","S","E"," ","W","H","E","N">>)

ClassifierReturned == cpc = "done" /\ derivation_logic.isstr /\ source_table.isstr

\* C5: the fragment returned for any logic and any source table references
\* only columns of the catalog's list for that table
C5_FragmentUsesOnlyKnownColumns ==
  (ClassifierReturned /\ ~safe_sql.raised) =>
     ColumnsReferenced(safe_sql.sql) \subseteq KnownColumns(source_table.s)

\* C8: for str arguments the call never raises, and logic that matches no
\* pattern and contains no known column of the source table yields the literal 1
C8_NeverRaisesAndFallsBackToOne ==
  ClassifierReturned =>
     /\ ~safe_sql.raised
     /\ ( ( /\ ~MatchesPattern(derivation_logic.s, source_table.s)
            /\ \A c \in KnownColumns(source_table.s) : ~Contains(Lower(derivation_logic.s), c) )
          => safe_sql.sql = <<"1">> )

\* C9: logic that is exactly a column name c of a catalogued table, in any
\* letter case, resolves to the passthrough of c
C9_ExactColumnIsPassthrough ==
  (ClassifierReturned /\ Lower(derivation_logic.s) \in KnownColumns(source_table.s)) =>
     /\ ~safe_sql.raised
     /\ safe_sql.sql = Lower(derivation_logic.s)

\* C9 witness: Account_Status on account_profiles came back as account_status
C9_Witness ==
  /\ cpc = "done"
  /\ derivation_logic = PyStr(<<"A","c","c","o","u","n","t","_","S","t","a","t","u","s">>)
  /\ source_table = PyStr(<<"a","c","c","o","u","n","t","_","p","r","o","f","i","l","e","s">>)
  /\ safe_sql = [raised |-> FALSE, sql |-> <<"a","c","c","o","u","n","t","_","s","t","a","t","u","s">>]


(***************************************************************************)
(* Plan runs: the engine evaluating a comparison plan stage by stage on    *)
(* bounded tables                                                          *)
(***************************************************************************)
\* the largest number of rows of the source projection and of the target
MaxRows == 2

\* the key tuples of the tables: with two key columns the rows agree on the
\* first column and differ on the second
KeyTuples(n) == IF n = 1 THEN {<<1>>, <<2>>} ELSE {<<1, 1>>, <<1, 2>>}

\* 1.0, 1.005 and 1.01 differ by less than, and by exactly, the tolerance
AggregationCells == {Null, Float64(1000), Float64(1005), Float64(1010), Int64(1)}

RowCells == {Null, Str("Ann Lee"), Str("A. Lee"), Int64(1), Float64(1000)}

\* a name in an aggregation comparison is the engine's cast failure
BadAggregationCells == {Str("Ann Lee")}

Tables(n, cells) ==
  {rows \in SUBSET [key : KeyTuples(n), val : cells] : Cardinality(rows) <= MaxRows}

\* the source projection of an aggregation plan has one row per group
OneRowPerKey(rows) == \A r1, r2 \in rows : r1.key = r2.key => r1 = r2

PlanInit ==
  /\ ClassifierIdle
  /\ BatchIdle
  /\ CallsIdle
  /\ plan_kind \in ComparisonPlans
  /\ nkeys \in {1, 2}
  /\ IF IsAggregationPlan(plan_kind)
     THEN /\ calc_rows \in Tables(nkeys, AggregationCells)
          /\ OneRowPerKey(calc_rows)
          /\ target_rows \in Tables(nkeys, AggregationCells \cup BadAggregationCells)
     ELSE /\ calc_rows \in Tables(nkeys, RowCells)
          /\ target_rows \in Tables(nkeys, RowCells)
  /\ comparison = {}
  /\ summary = NoSummary
  /\ result_rows = <<>>
  /\ qpc = "start"

\* the comparison CTE; a failing cast ends the query with an error
RunComparison ==
  /\ qpc = "start"
  /\ IF comparison_fails(plan_kind, nkeys, calc_rows, target_rows)
     THEN qpc' = "failed" /\ UNCHANGED comparison
     ELSE /\ comparison' = comparison_cte(plan_kind, nkeys, calc_rows, target_rows)
          /\ qpc' = "compared"
  /\ UNCHANGED << classifier_vars, batch_vars, call_vars, plan_kind, nkeys, calc_rows, target_rows, summary, result_rows >>

\* the validation_summary CTE
RunSummary ==
  /\ qpc = "compared"
  /\ summary' = validation_summary(plan_kind, comparison)
  /\ qpc' = "summarized"
  /\ UNCHANGED << classifier_vars, batch_vars, call_vars, plan_kind, nkeys, calc_rows, target_rows, comparison, result_rows >>

\* the final SELECT (and the UNION ALL ... LIMIT of the basic row-level plan)
RunFinalSelect ==
  /\ qpc = "summarized"
  /\ result_rows' \in final_results(plan_kind, summary)
  /\ qpc' = "returned"
  /\ UNCHANGED << classifier_vars, batch_vars, call_vars, plan_kind, nkeys, calc_rows, target_rows, comparison, summary >>

PlanNext == RunComparison \/ RunSummary \/ RunFinalSelect

SpecPlan == PlanInit /\ [][PlanNext]_vars


(***************************************************************************)
(* Properties of the comparison plans                                      *)
(***************************************************************************)
SummaryRows == {k \in 1..Len(result_rows) : result_rows[k].validation_status # "MISMATCH_SAMPLE"}

\* C1: in every comparison plan the summary row says PASS exactly when the
\* MATCH rows are all the comparison rows, and FAIL otherwise; no third grade
C1_VerdictIsPassIffAllMatch ==
  qpc = "returned" =>
    \A k \in SummaryRows :
      /\ result_rows[k].validation_status \in {"PASS", "FAIL"}
      /\ result_rows[k].validation_status = "PASS"
           <=> CountIf(comparison, "MATCH") = Cardinality(comparison)

\* C1 witness: a returned summary of a plan with exactly one row short of a
\* full match, which reads FAIL
C1_Witness ==
  /\ qpc = "returned"
  /\ Cardinality(comparison) >= 2
  /\ CountIf(comparison, "MATCH") = Cardinality(comparison) - 1
  /\ \E k \in SummaryRows : result_rows[k].validation_status = "FAIL"

FiveLabels == {"MATCH", "MISMATCH", "SOURCE_NULL", "TARGET_NULL", "BOTH_NULL"}

\* the label the five-way rule gives a joined row; only_computed_null is the
\* label of a row whose computed value alone is NULL
LabelledAsRuled(r, only_computed_null) ==
  LET c == r.s.val
      a == r.t.val
      l == r.validation_result
  IN /\ (c = Null /\ a = Null) => l = "BOTH_NULL"
     /\ (c = Null /\ a # Null) => l = only_computed_null
     /\ (c # Null /\ a = Null) => l = "TARGET_NULL"
     /\ (c # Null /\ a # Null) => l \in {"MATCH", "MISMATCH"}
     /\ (c # Null /\ a # Null /\ ~IsAggregationPlan(plan_kind)) =>
          (l = "MATCH" <=> CastString(c) = CastString(a))

C6_ToleranceBoundaryExclusive ==
  IsAggregationPlan(plan_kind) =>
    \A r \in comparison :
      (r.s.val # Null /\ r.t.val # Null) =>
        LET d == Abs(CastFloat(r.s.val) - CastFloat(r.t.val))
        IN /\ r.validation_result = "MATCH" <=> d < Tolerance
           /\ r.validation_result = "MISMATCH" <=> d >= Tolerance

\* C6 witness: 1.0 against 1.01, a difference of exactly 0.01, is a MISMATCH,
\* and 1.0 against 1.005 is a MATCH
C6_Witness ==
  /\ IsAggregationPlan(plan_kind)
  /\ \E r \in comparison :
       /\ r.s.val # Null /\ r.t.val # Null
       /\ Abs(CastFloat(r.s.val) - CastFloat(r.t.val)) = Tolerance
       /\ r.validation_result = "MISMATCH"
  /\ \E r \in comparison :
       /\ r.s.val = Float64(1000) /\ r.t.val = Float64(1005)
       /\ r.validation_result = "MATCH"

(***************************************************************************)
(* streamlit_app: one scenario of the batch                                *)
(***************************************************************************)
\* the rows a pre-built query of streamlit_app may bring back
StreamlitRows == [validation_status : {"PASS", "FAIL", "INFO"}, row_count : {0, 2}]

StreamlitData == {<< r >> : r \in StreamlitRows} \cup {<< r1, r2 >> : r1, r2 \in StreamlitRows}

\* streamlit_app.execute_custom_query: None when test_scenarios is None; the
\* error dict when execute_query raises or returns nothing; else the rows
streamlit_execute_custom_query(client) ==
  IF client = "None" THEN {NoResult}
  ELSE { [status |-> "error", data |-> <<>>, error |-> EngineError],
         [status |-> "error", data |-> <<>>, error |-> <<"Q","u","e","r","y"," ","r","e","t","u","r","n","e","d"," ","n","o"," ","r","e","s","u","l","t","s">>] }
         \cup { [status |-> "success", data |-> rows, error |-> <<>>] : rows \in StreamlitData }

RECURSIVE SumRowCount(_)
SumRowCount(rows) == IF Len(rows) = 0 THEN 0 ELSE rows[1].row_count + SumRowCount(Tail(rows))

RowsWithStatus(rows, status) == SelectSeq(rows, LAMBDA r : r.validation_status = status)

\* the dict streamlit_app appends for a result that is not None
streamlit_result_record(scenario, result) ==
  IF result.status = "success"
  THEN LET pass_record == RowsWithStatus(result.data, "PASS")
           fail_record == RowsWithStatus(result.data, "FAIL")
           total_rows == IF Len(pass_record) > 0 THEN pass_record[1].row_count
                         ELSE result.data[1].row_count
           fail_rows == IF Len(fail_record) > 0 THEN SumRowCount(fail_record) ELSE 0
       IN [ name |-> scenario.scenario_name,
            status |-> IF total_rows > 0 THEN "PASS" ELSE "FAIL",
            total_rows |-> total_rows, pass_rows |-> total_rows - fail_rows,
            fail_rows |-> fail_rows, error |-> <<>> ]
  ELSE [ name |-> scenario.scenario_name, status |-> "ERROR", total_rows |-> 0,
         pass_rows |-> 0, fail_rows |-> 0, error |-> result.error ]

(***************************************************************************)
(* Batches: execute_all_excel_scenarios of excel_handler and of            *)
(* streamlit_app on bounded scenario lists and databases                   *)
(***************************************************************************)
\* the longest batch
MaxScenarios == 2

Scenario(name, source, target, source_key, target_key, column, logic) ==
  [ scenario_name |-> name, source_table |-> source, target_table |-> target,
    source_join_key |-> source_key, target_join_key |-> target_key,
    target_column |-> column, derivation_logic |-> logic,
    reference_table |-> <<>>, reference_join_key |-> <<>>,
    reference_lookup_column |-> <<>>, reference_return_column |-> <<>> ]

FullNameScenario ==
  Scenario("full_name", <<"c","u","s","t","o","m","e","r","s">>, <<"c","u","s","t","o","m","e","r","_","s","u","m","m","a","r","y">>, <<"c","u","s","t","o","m","e","r","_","i","d">>, <<"c","u","s","t","_","i","d">>,
           <<"f","u","l","l","_","n","a","m","e">>, <<"C","O","N","C","A","T","(","f","i","r","s","t","_","n","a","m","e",","," ","\""," ","\"",","," ","l","a","s","t","_","n","a","m","e",")">>)

ArityScenario ==
  Scenario("arity", <<"c","u","s","t","o","m","e","r","s">>, <<"c","u","s","t","o","m","e","r","_","s","u","m","m","a","r","y">>, <<"c","u","s","t","o","m","e","r","_","i","d",","," ","a","c","c","o","u","n","t","_","t","y","p","e">>,
           <<"c","u","s","t","_","i","d">>, <<"f","u","l","l","_","n","a","m","e">>, <<"C","O","N","C","A","T","(","f","i","r","s","t","_","n","a","m","e",","," ","\""," ","\"",","," ","l","a","s","t","_","n","a","m","e",")">>)

NoKeysScenario ==
  Scenario("no_keys", <<"c","u","s","t","o","m","e","r","s">>, <<"c","u","s","t","o","m","e","r","_","s","u","m","m","a","r","y">>, <<>>, <<>>,
           <<"f","u","l","l","_","n","a","m","e">>, <<"C","O","N","C","A","T","(","f","i","r","s","t","_","n","a","m","e",","," ","\""," ","\"",","," ","l","a","s","t","_","n","a","m","e",")">>)

TierScenario ==
  [ Scenario("tier", <<"c","u","s","t","o","m","e","r","s">>, <<"c","u","s","t","o","m","e","r","_","s","u","m","m","a","r","y">>, <<"c","u","s","t","o","m","e","r","_","i","d",","," ","a","c","c","o","u","n","t","_","t","y","p","e">>,
             <<"c","u","s","t","_","i","d">>, <<"t","i","e","r">>, <<"L","O","O","K","U","P","(","t","i","e","r",")">>)
    EXCEPT !.reference_table = <<"c","u","s","t","o","m","e","r","_","t","i","e","r","s">>,
           !.reference_join_key = <<"c","u","s","t","o","m","e","r","_","i","d">>,
           !.reference_return_column = <<"t","i","e","r">> ]

\* a reference scenario of a sheet without key columns
TierNoKeysScenario ==
  [ Scenario("tier_no_keys", <<"c","u","s","t","o","m","e","r","s">>, <<"c","u","s","t","o","m","e","r","_","s","u","m","m","a","r","y">>, <<>>, <<>>,
             <<"t","i","e","r">>, <<"L","O","O","K","U","P","(","t","i","e","r",")">>)
    EXCEPT !.reference_table = <<"c","u","s","t","o","m","e","r","_","t","i","e","r","s">>,
           !.reference_join_key = <<"c","u","s","t","o","m","e","r","_","i","d">>,
           !.reference_return_column = <<"t","i","e","r">> ]

\* a reference scenario whose Reference_Join_Key cell is empty
TierNoReferenceKeyScenario ==
  [ Scenario("tier_no_reference_key", <<"c","u","s","t","o","m","e","r","s">>, <<"c","u","s","t","o","m","e","r","_","s","u","m","m","a","r","y">>, <<"c","u","s","t","o","m","e","r","_","i","d">>,
             <<"c","u","s","t","_","i","d">>, <<"t","i","e","r">>, <<"L","O","O","K","U","P","(","t","i","e","r",")">>)
    EXCEPT !.reference_table = <<"c","u","s","t","o","m","e","r","_","t","i","e","r","s">>,
           !.reference_return_column = <<"t","i","e","r">> ]

\* a reference scenario with a reference key of two columns
TierTwoReferenceKeysScenario ==
  [ Scenario("tier_two_reference_keys", <<"c","u","s","t","o","m","e","r","s">>, <<"c","u","s","t","o","m","e","r","_","s","u","m","m","a","r","y">>,
             <<"c","u","s","t","o","m","e","r","_","i","d",","," ","a","c","c","o","u","n","t","_","t","y","p","e">>, <<"c","u","s","t","_","i","d",","," ","t","i","e","r">>, <<"t","i","e","r">>, <<"L","O","O","K","U","P","(","t","i","e","r",")">>)
    EXCEPT !.reference_table = <<"c","u","s","t","o","m","e","r","_","t","i","e","r","s">>,
           !.reference_join_key = <<"c","u","s","t","o","m","e","r","_","i","d",","," ","t","i","e","r">>,
           !.reference_return_column = <<"t","i","e","r">> ]

QualityScenario ==
  Scenario("quality", <<"c","u","s","t","o","m","e","r","s">>, <<>>, <<"c","u","s","t","o","m","e","r","_","i","d">>, <<>>, <<"f","i","r","s","t","_","n","a","m","e">>, <<"f","i","r","s","t","_","n","a","m","e">>)

\* the scenario of a row whose Target_Table cell is blank: str(NaN) is 'nan'
QualityBlankTargetScenario ==
  Scenario("quality_blank_target", <<"c","u","s","t","o","m","e","r","s">>, <<"n","a","n">>, <<"c","u","s","t","o","m","e","r","_","i","d">>, <<"c","u","s","t","_","i","d">>,
           <<"f","i","r","s","t","_","n","a","m","e">>, <<"f","i","r","s","t","_","n","a","m","e">>)

QualityNoKeysScenario ==
  Scenario("quality_no_keys", <<"c","u","s","t","o","m","e","r","s">>, <<>>, <<>>, <<>>, <<"f","i","r","s","t","_","n","a","m","e">>, <<"f","i","r","s","t","_","n","a","m","e">>)

TotalScenario ==
  Scenario("total", <<"c","u","s","t","o","m","e","r","s">>, <<"c","u","s","t","o","m","e","r","_","s","u","m","m","a","r","y">>, <<"c","u","s","t","o","m","e","r","_","i","d">>, <<"c","u","s","t","_","i","d">>,
           <<"t","o","t","a","l","_","b","a","l","a","n","c","e">>, <<"S","U","M","(","b","a","l","a","n","c","e",")"," ","G","R","O","U","P","_","B","Y"," ","c","u","s","t","o","m","e","r","_","i","d">>)

ScenarioPool ==
  { FullNameScenario, ArityScenario, NoKeysScenario, TierScenario, TierNoKeysScenario,
    TierNoReferenceKeyScenario, TierTwoReferenceKeysScenario,
    QualityScenario, QualityBlankTargetScenario,
    QualityNoKeysScenario, TotalScenario }

Batches == UNION { [1..n -> ScenarioPool] : n \in 1..MaxScenarios }

\* streamlit_app reads nothing of a scenario but its name and its pre-built
\* query, whose rows are drawn from StreamlitData
StreamlitPool == { FullNameScenario, TierScenario, QualityScenario }

StreamlitBatches == UNION { [1..n -> StreamlitPool] : n \in 1..MaxScenarios }

Customer(id, first, last, type, balance) ==
  [ customer_id |-> Int64(id), first_name |-> first, last_name |-> last,
    account_type |-> Str(type), balance |-> Int64(balance) ]

Ann == Customer(1, Str("Ann"), Str("Lee"), "savings", 100)

Bob == Customer(2, Str("Bob"), Str("Ray"), "checking", 250)

Summary(id, name, tier, total) ==
  [ cust_id |-> Int64(id), full_name |-> name, tier |-> Str(tier), total_balance |-> Int64(total) ]

Database(customers, customer_summary) ==
  [ customers |->
      [ columns |-> {"customer_id", "first_name", "last_name", "account_type", "balance"},
        rows |-> customers ],
    customer_summary |->
      [ columns |-> {"cust_id", "full_name", "tier", "total_balance"},
        rows |-> customer_summary ],
    customer_tiers |->
      [ columns |-> {"customer_id", "tier"},
        rows |-> { [customer_id |-> Int64(1), tier |-> Str("gold")],
                   [customer_id |-> Int64(2), tier |-> Str("basic")] } ] ]

\* a dataset that also holds a table named nan, the name a blank Target_Table
\* cell turns into
NanTableDatabase ==
  Database({Ann}, {Summary(1, Str("Ann Lee"), "gold", 100)})
    @@ ("nan" :> [ columns |-> {"cust_id", "first_name"},
                   rows |-> { [cust_id |-> Int64(1), first_name |-> Str("Anne")] } ])

Databases ==
  { NanTableDatabase,
    Database({Ann}, {Summary(1, Str("Ann Lee"), "gold", 100)}),
    Database({Ann}, {Summary(1, Str("A. Lee"), "gold", 100)}),
    Database({Ann, Bob}, {Summary(1, Str("Ann Lee"), "gold", 100),
                          Summary(2, Str("Bob Ray"), "basic", 250)}),
    Database({Ann, Bob}, {Summary(1, Str("Ann Lee"), "gold", 100),
                          Summary(2, Str("B. Ray"), "gold", 300)}),
    Database({Ann, Bob}, {Summary(1, Str("Ann Lee"), "gold", 100)}),
    Database({Ann}, {Summary(1, Str("Ann Lee"), "gold", 100),
                     Summary(2, Str("Bob Ray"), "basic", 250)}),
    Database({Customer(1, Str("Ann"), Null, "savings", 100)}, {Summary(1, Null, "gold", 100)}),
    Database({}, {}) }

BatchInit ==
  /\ ClassifierIdle
  /\ PlanIdle
  /\ CallsIdle
  /\ entry \in {"excel_handler", "streamlit_app"}
  /\ scenarios \in IF entry = "excel_handler" THEN Batches ELSE StreamlitBatches
  /\ db \in IF entry = "excel_handler" THEN Databases ELSE {Database({}, {})}
  /\ connection_status \in {"connected", "None"}
  /\ test_scenarios = IF connection_status = "connected" THEN "client" ELSE "None"
  /\ results = <<>>
  /\ scenario_results = <<>>
  /\ submitted = <<>>
  /\ answers = <<>>
  /\ opc = "loop"

\* ExcelTry with an orchestrator that hands the query to the engine a second
\* time when the first call came back with an error
ExcelTry_retrying(i, scenario, sql_query) ==
  IF sql_query.raised
  THEN /\ results' = Append(results, ErrorRecord(scenario, sql_query.error))
       /\ UNCHANGED << submitted, answers >>
  ELSE IF sql_query.plan.template = "none"
  THEN /\ results' = Append(results, ErrorRecord(scenario, <<"F","a","i","l","e","d"," ","t","o"," ","g","e","n","e","r","a","t","e"," ","S","Q","L"," ","q","u","e","r","y">>))
       /\ UNCHANGED << submitted, answers >>
  ELSE \E first \in execute_custom_query(sql_query.plan, db, connection_status) :
         IF first.status # "error"
         THEN /\ submitted' = IF Submits(connection_status)
                              THEN Append(submitted, [index |-> i, plan |-> sql_query.plan])
                              ELSE submitted
              /\ results' = Append(results, result_record(scenario, first))
              /\ answers' = Append(answers, [index |-> i, query_result |-> first])
         ELSE \E query_result \in execute_custom_query(sql_query.plan, db, connection_status) :
                /\ submitted' = submitted \o << [index |-> i, plan |-> sql_query.plan],
                                                [index |-> i, plan |-> sql_query.plan] >>
                /\ results' = Append(results, result_record(scenario, query_result))
                /\ answers' = answers \o << [index |-> i, query_result |-> first],
                                            [index |-> i, query_result |-> query_result] >>

\* ExcelTry with an orchestrator that puts the newest record first
ExcelTry_newest_first(i, scenario, sql_query) ==
  IF sql_query.raised
  THEN /\ results' = << ErrorRecord(scenario, sql_query.error) >> \o results
       /\ UNCHANGED << submitted, answers >>
  ELSE IF sql_query.plan.template = "none"
  THEN /\ results' = << ErrorRecord(scenario, <<"F","a","i","l","e","d"," ","t","o"," ","g","e","n","e","r","a","t","e"," ","S","Q","L"," ","q","u","e","r","y">>) >> \o results
       /\ UNCHANGED << submitted, answers >>
  ELSE /\ submitted' = IF Submits(connection_status)
                       THEN Append(submitted, [index |-> i, plan |-> sql_query.plan])
                       ELSE submitted
       /\ \E query_result \in execute_custom_query(sql_query.plan, db, connection_status) :
            /\ results' = << result_record(scenario, query_result) >> \o results
            /\ answers' = Append(answers, [index |-> i, query_result |-> query_result])

\* excel_handler: the body of the try once sql_query is built, and the except
\* clause when the builder raised
ExcelTry(i, scenario, sql_query) ==
  IF sql_query.raised
  THEN /\ results' = Append(results, ErrorRecord(scenario, sql_query.error))
       /\ UNCHANGED << submitted, answers >>
  ELSE IF sql_query.plan.template = "none"
  THEN /\ results' = Append(results, ErrorRecord(scenario, <<"F","a","i","l","e","d"," ","t","o"," ","g","e","n","e","r","a","t","e"," ","S","Q","L"," ","q","u","e","r","y">>))
       /\ UNCHANGED << submitted, answers >>
  ELSE /\ submitted' = IF Submits(connection_status)
                       THEN Append(submitted, [index |-> i, plan |-> sql_query.plan])
                       ELSE submitted
       /\ \E query_result \in execute_custom_query(sql_query.plan, db, connection_status) :
            /\ results' = Append(results, result_record(scenario, query_result))
            /\ answers' = Append(answers, [index |-> i, query_result |-> query_result])

\* excel_handler: one pass of the for loop, with its try / except
ExcelScenario ==
  /\ entry = "excel_handler"
  /\ opc = "loop"
  /\ Len(results) < Len(scenarios)
  /\ ExcelTry(Len(results) + 1, scenarios[Len(results) + 1],
              generate_sql(scenarios[Len(results) + 1]))
  /\ UNCHANGED << classifier_vars, plan_vars, call_vars, entry, scenarios, db, connection_status,
                  test_scenarios, scenario_results, opc >>

\* excel_handler: st.session_state['scenario_results'] = results
ExcelStore ==
  /\ entry = "excel_handler"
  /\ opc = "loop"
  /\ Len(results) = Len(scenarios)
  /\ scenario_results' = results
  /\ opc' = "done"
  /\ UNCHANGED << classifier_vars, plan_vars, call_vars, entry, scenarios, db, connection_status,
                  test_scenarios, results, submitted, answers >>

\* streamlit_app: one pass of the for loop with a result that is not None
StreamlitScenario ==
  /\ entry = "streamlit_app"
  /\ opc = "loop"
  /\ Len(scenario_results) < Len(scenarios)
  /\ test_scenarios # "None"
  /\ LET i == Len(scenario_results) + 1
     IN /\ submitted' = Append(submitted, [index |-> i, plan |-> NoPlan])
        /\ \E result \in streamlit_execute_custom_query(test_scenarios) :
             scenario_results' =
               Append(scenario_results, streamlit_result_record(scenarios[i], result))
  /\ UNCHANGED << classifier_vars, plan_vars, call_vars, entry, scenarios, db, connection_status,
                  test_scenarios, results, answers, opc >>

\* streamlit_app: result is None and result['status'] raises TypeError, which
\* nothing in the function catches
StreamlitTypeError ==
  /\ entry = "streamlit_app"
  /\ opc = "loop"
  /\ Len(scenario_results) < Len(scenarios)
  /\ NoResult \in streamlit_execute_custom_query(test_scenarios)
  /\ opc' = "aborted"
  /\ UNCHANGED << classifier_vars, plan_vars, call_vars, entry, scenarios, db, connection_status,
                  test_scenarios, results, scenario_results, submitted, answers >>

\* streamlit_app: the loop is over
StreamlitDone ==
  /\ entry = "streamlit_app"
  /\ opc = "loop"
  /\ Len(scenario_results) = Len(scenarios)
  /\ opc' = "done"
  /\ UNCHANGED << classifier_vars, plan_vars, call_vars, entry, scenarios, db, connection_status,
                  test_scenarios, results, scenario_results, submitted, answers >>

Next == ExcelScenario \/ ExcelStore \/ StreamlitScenario \/ StreamlitTypeError \/ StreamlitDone

Spec == BatchInit /\ [][Next]_vars

(***************************************************************************)
(* Properties of the batches                                               *)
(***************************************************************************)
RecordName(r) == IF entry = "streamlit_app" THEN r.name ELSE r.scenario_name

BatchOver == opc \in {"done", "aborted"}

\* C3: when a call of either execute_all_excel_scenarios is over, every
\* scenario of the batch has its record in st.session_state['scenario_results'],
\* in order, and a scenario whose SQL generation raised or whose query got no
\* result from a session that is not connected is recorded ERROR
C3_FailureNeverAbortsTheBatch ==
  BatchOver =>
    /\ Len(scenario_results) = Len(scenarios)
    /\ \A k \in 1..Len(scenario_results) :
         /\ RecordName(scenario_results[k]) = scenarios[k].scenario_name
         /\ connection_status # "connected" => scenario_results[k].status = "ERROR"
         /\ (entry = "excel_handler" /\ generate_sql(scenarios[k]).raised) =>
              scenario_results[k].status = "ERROR"

\* the scenario compares with a target (reference-lookup or target-comparison)
ComparesWithTarget(scenario) ==
  Declared(scenario.reference_table) \/ Declared(scenario.target_table)

\* the declared key lists break the key rule: an empty source list, and for
\* scenarios with a target an empty target list or lists of different length
KeyListsViolate(scenario) ==
  LET source_keys == parse_join_keys(scenario.source_join_key)
      target_keys == parse_join_keys(scenario.target_join_key)
  IN \/ Len(source_keys) = 0
     \/ /\ ComparesWithTarget(scenario)
        /\ (Len(target_keys) = 0 \/ Len(source_keys) # Len(target_keys))

DeclaredKeyCount(scenario) ==
  LET n == Len(parse_join_keys(scenario.source_join_key))
      m == Len(parse_join_keys(scenario.target_join_key))
  IN IF n > m THEN n ELSE m

\* C4: in a batch of excel_handler a scenario whose key lists break the key
\* rule is recorded ERROR, no query of it is handed to the engine, and no plan
\* that joins on fewer pairs than the declared keys is compiled for it
C4_KeyViolationIsConfigurationError ==
  entry = "excel_handler" =>
    \A k \in 1..Len(results) :
      KeyListsViolate(scenarios[k]) =>
        /\ results[k].status = "ERROR"
        /\ \A j \in 1..Len(submitted) : submitted[j].index # k
        /\ LET sql_query == generate_sql(scenarios[k])
           IN ~ /\ ~sql_query.raised
                /\ HasTarget(sql_query.plan)
                /\ Len(OnPairs(sql_query.plan.on)) < DeclaredKeyCount(scenarios[k])

\* customers and customer_summary hold exactly one row per key, for the same
\* keys, and every name is present
OneRowPerKeyOnEachSide(database) ==
  LET c == database["customers"].rows
      t == database["customer_summary"].rows
  IN /\ \A x, y \in c : x["customer_id"] = y["customer_id"] => x = y
     /\ \A x, y \in t : x["cust_id"] = y["cust_id"] => x = y
     /\ {x["customer_id"] : x \in c} = {x["cust_id"] : x \in t}
     /\ \A x \in c : x["first_name"] # Null /\ x["last_name"] # Null
     /\ \A x \in t : x["full_name"] # Null

\* first_name + " " + last_name equals the target full_name for every key
DerivedEqualsTargetForEveryKey(database) ==
  \A x \in database["customers"].rows :
    \E y \in database["customer_summary"].rows :
      /\ y["cust_id"] = x["customer_id"]
      /\ y["full_name"].v = x["first_name"].v \o " " \o x["last_name"].v

AnnLeeDatabase == Database({Ann}, {Summary(1, Str("Ann Lee"), "gold", 100)})

ALeeDatabase == Database({Ann}, {Summary(1, Str("A. Lee"), "gold", 100)})

\* C7: the record excel_handler keeps for the full_name scenario over tables
\* with one row per key is ERROR only when the session is not connected or the
\* engine call failed; else it is PASS iff the derived name equals the target
\* name for every key, FAIL otherwise, with the number of keys as total; PASS,
\* 1 and 100.0 for "Ann Lee", FAIL with 1 mismatch out of 1 row for "A. Lee"
C7_FullNameVerdictEndToEnd ==
  \A k \in 1..Len(results) :
    (entry = "excel_handler" /\ scenarios[k] = FullNameScenario /\ OneRowPerKeyOnEachSide(db)) =>
      LET r == results[k]
      IN IF r.status = "ERROR"
         THEN r.error_message \in {EngineError, <<"Q","u","e","r","y"," ","e","x","e","c","u","t","i","o","n"," ","f","a","i","l","e","d">>}
         ELSE /\ r.status \in {"PASS", "FAIL"}
              /\ r.status = "PASS" <=> DerivedEqualsTargetForEveryKey(db)
              /\ r.total_records = Cardinality(db["customers"].rows)
              /\ db = AnnLeeDatabase =>
                   /\ r.status = "PASS" /\ r.total_records = 1 /\ r.passed_records = 1
                   /\ r.result_data[1].percentage = 10000
              /\ db = ALeeDatabase =>
                   /\ r.status = "FAIL"
                   /\ r.result_data[1].details.mismatches = 1
                   /\ r.result_data[1].details.out_of = 1

\* C7 witness: the stored record of the full_name scenario on the "Ann Lee"
\* tables reads PASS, 1, 100.0
C7_Witness ==
  /\ entry = "excel_handler"
  /\ opc = "done"
  /\ db = AnnLeeDatabase
  /\ \E k \in 1..Len(scenario_results) :
       /\ scenarios[k] = FullNameScenario
       /\ scenario_results[k].status = "PASS"
       /\ scenario_results[k].total_records = 1
       /\ scenario_results[k].result_data[1].percentage = 10000

\* the FAIL case of C7 is reached too
C7_FailReached ==
  /\ db = ALeeDatabase
  /\ \E k \in 1..Len(results) :
       /\ scenarios[k] = FullNameScenario
       /\ results[k].status = "FAIL"
       /\ results[k].result_data[1].details.mismatches = 1

(***************************************************************************)
(* Key calls: parse_join_keys and create_join_condition on bounded inputs  *)
(***************************************************************************)
\* the longest key specification built from the alphabet
MaxSpecLen == 4

\* the longest key list handed to create_join_condition
MaxKeys == 2

SpecAlphabet == {"a", "b", ",", " ", "\t"}

Strings(alphabet, n) == UNION { [1..k -> alphabet] : k \in 0..n }

KeySpecs ==
  Strings(SpecAlphabet, MaxSpecLen)
    \cup { <<"c","u","s","t","o","m","e","r","_","i","d",","," ","a","c","c","o","u","n","t","_","t","y","p","e">>, <<"c","u","s","t","o","m","e","r","_","i","d",",","a","c","c","o","u","n","t","_","t","y","p","e">>,
           <<" ","c","u","s","t","o","m","e","r","_","i","d"," ",","," ",",","a","c","c","o","u","n","t","_","t","y","p","e",","," ">> }

KeyNames == { <<"c","u","s","t","o","m","e","r","_","i","d">>, <<"c","u","s","t","_","i","d">>, <<"a","c","c","o","u","n","t","_","t","y","p","e">> }

KeyLists == Strings(KeyNames, MaxKeys)

AliasPairs == { << <<"s">>, <<"t">> >>, << <<"s","r","c">>, <<"t","g","t">> >> }

KeysInit ==
  /\ ClassifierIdle
  /\ PlanIdle
  /\ BatchIdle
  /\ SheetIdle
  /\ CompileIdle
  /\ RunIdle
  /\ kpc \in {"parse", "join"}
  /\ join_key_str \in IF kpc = "parse" THEN KeySpecs ELSE {<<>>}
  /\ source_keys_arg \in IF kpc = "join" THEN KeyLists ELSE {<<>>}
  /\ target_keys_arg \in IF kpc = "join" THEN KeyLists ELSE {<<>>}
  /\ \E pair \in IF kpc = "join" THEN AliasPairs ELSE {<< <<>>, <<>> >>} :
       source_alias = pair[1] /\ target_alias = pair[2]
  /\ keys = <<>>
  /\ condition = NoCondition

\* one call of parse_join_keys
ParseJoinKeys ==
  /\ kpc = "parse"
  /\ keys' = parse_join_keys(join_key_str)
  /\ kpc' = "parsed"
  /\ UNCHANGED << classifier_vars, plan_vars, batch_vars, sheet_vars, compile_vars, run_vars, join_key_str, source_keys_arg,
                  target_keys_arg, source_alias, target_alias, condition >>

\* one call of create_join_condition
CreateJoinCondition ==
  /\ kpc = "join"
  /\ condition' = create_join_condition(source_keys_arg, target_keys_arg, source_alias, target_alias)
  /\ kpc' = "joined"
  /\ UNCHANGED << classifier_vars, plan_vars, batch_vars, sheet_vars, compile_vars, run_vars, join_key_str, source_keys_arg,
                  target_keys_arg, source_alias, target_alias, keys >>

KeysNext == ParseJoinKeys \/ CreateJoinCondition

SpecKeys == KeysInit /\ [][KeysNext]_vars

(***************************************************************************)
(* Properties of the key calls                                             *)
(***************************************************************************)
\* the positions of the commas of a specification
Commas(spec) == {k \in 1..Len(spec) : spec[k] = ","}

\* the position of the j-th comma; 0 before the first, Len + 1 after the last
CommaAt(spec, j) ==
  IF j = 0 THEN 0
  ELSE IF j > Cardinality(Commas(spec)) THEN Len(spec) + 1
  ELSE CHOOSE k \in Commas(spec) : Cardinality({i \in Commas(spec) : i < k}) = j - 1

\* the j-th comma-separated segment
Segment(spec, j) == SubSeq(spec, CommaAt(spec, j - 1) + 1, CommaAt(spec, j) - 1)

RECURSIVE TrimLeft(_)
TrimLeft(x) == IF Len(x) > 0 /\ IsSpace(x[1]) THEN TrimLeft(Tail(x)) ELSE x

RECURSIVE TrimRight(_)
TrimRight(x) ==
  IF Len(x) > 0 /\ IsSpace(x[Len(x)]) THEN TrimRight(SubSeq(x, 1, Len(x) - 1)) ELSE x

\* the segments in order, trimmed, without the empty ones
TrimmedSegments(spec) ==
  SelectSeq([j \in 1..(Cardinality(Commas(spec)) + 1) |-> TrimLeft(TrimRight(Segment(spec, j)))],
            LAMBDA x : x # <<>>)

\* C11: parse_join_keys returns the comma-separated segments in their order,
\* each trimmed, the empty and whitespace-only ones dropped; the empty list for
\* an empty or whitespace-only specification
C11_ParseJoinKeysSegments ==
  kpc = "parsed" =>
     /\ keys = TrimmedSegments(join_key_str)
     /\ (\A k \in 1..Len(join_key_str) : IsSpace(join_key_str[k])) => keys = <<>>

\* C11 witness: a specification with padded, empty and whitespace-only
\* segments came back as its two names
C11_Witness ==
  /\ kpc = "parsed"
  /\ join_key_str = <<" ","c","u","s","t","o","m","e","r","_","i","d"," ",","," ",",","a","c","c","o","u","n","t","_","t","y","p","e",","," ">>
  /\ keys = << <<"c","u","s","t","o","m","e","r","_","i","d">>, <<"a","c","c","o","u","n","t","_","t","y","p","e">> >>

\* the i-th equality of the predicate
Equality(i) ==
  source_alias \o <<".">> \o source_keys_arg[i] \o <<" ","="," ">> \o target_alias \o <<".">> \o target_keys_arg[i]

BuildRaised(sql_query) == sql_query.raised \/ sql_query.plan.template = "error_select"

\* str(e) of that exception
BuildMessage(sql_query) == IF sql_query.raised THEN sql_query.error ELSE sql_query.plan.text

\* the summary row of the result reports mismatching rows
FoundMismatches(data) ==
  \E k \in 1..Len(data) :
    /\ "mismatches" \in DOMAIN data[k].details
    /\ data[k].details.mismatches > 0

\* C13: in a batch of excel_handler, a scenario whose query could not be built
\* because of an exception, or whose query the engine failed to execute, is
\* recorded ERROR with the exception's or the engine's message as its
\* error_message; a scenario whose query ran and reported mismatches is FAIL
C13_FailureIsErrorWithItsMessage ==
  entry = "excel_handler" =>
    \A k \in 1..Len(results) :
      /\ BuildRaised(generate_sql(scenarios[k])) =>
           /\ results[k].status = "ERROR"
           /\ results[k].error_message = BuildMessage(generate_sql(scenarios[k]))
      /\ \A j \in 1..Len(answers) :
           answers[j].index = k =>
             /\ (~BuildRaised(generate_sql(scenarios[k])) /\ answers[j].query_result.status = "error") =>
                  /\ results[k].status = "ERROR"
                  /\ results[k].error_message = answers[j].query_result.error
             /\ ( /\ answers[j].query_result.status = "success"
                  /\ FoundMismatches(answers[j].query_result.data) ) =>
                  results[k].status = "FAIL"

(***************************************************************************)
(* excel_handler.generate_scenarios_from_excel on bounded sheets           *)
(***************************************************************************)
\* row.get(col, default): the cell, or the default when the sheet has no such column
row_get(columns, row, col, default) == IF col \in columns THEN row[col] ELSE PyStr(default)

\* str(cell): a blank cell is the float NaN, whose str is 'nan'
str_of(cell) == IF cell.isstr THEN cell.s ELSE <<"n","a","n">>

\* pd.isna(cell)
isna(cell) == ~cell.isstr

\* str(row.get(col, '')).strip()
stripped(columns, row, col) == Strip(str_of(row_get(columns, row, col, <<>>)))

\* the test under "Skip empty rows"
skip_empty_row(columns, row) ==
  \/ isna(row_get(columns, row, "Scenario_Name", <<>>))
  \/ stripped(columns, row, "Scenario_Name") = <<>>

\* the dict built for a row, with the fields the builders read
scenario_of(columns, row) ==
  [ scenario_name |-> Flat(stripped(columns, row, "Scenario_Name")),
    source_table |-> stripped(columns, row, "Source_Table"),
    target_table |-> stripped(columns, row, "Target_Table"),
    source_join_key |-> stripped(columns, row, "Source_Join_Key"),
    target_join_key |-> stripped(columns, row, "Target_Join_Key"),
    target_column |-> stripped(columns, row, "Target_Column"),
    derivation_logic |-> stripped(columns, row, "Derivation_Logic"),
    reference_table |-> stripped(columns, row, "Reference_Table"),
    reference_join_key |-> stripped(columns, row, "Reference_Join_Key"),
    reference_lookup_column |-> stripped(columns, row, "Reference_Lookup_Column"),
    reference_return_column |-> stripped(columns, row, "Reference_Return_Column") ]

\* "Only add if we have essential data"
essential(scenario) == Truthy(scenario.source_table) /\ Truthy(scenario.derivation_logic)

\* the most rows of a sheet
MaxSheetRows == 2

MappingColumns ==
  { "Scenario_Name", "Source_Table", "Target_Table", "Source_Join_Key", "Target_Join_Key",
    "Target_Column", "Derivation_Logic" }

\* the sheets of the model have the mapping columns, but for at most one of
\* them, and no reference columns
ColumnSets ==
  { MappingColumns, MappingColumns \ {"Source_Table"}, MappingColumns \ {"Derivation_Logic"},
    MappingColumns \ {"Target_Table"} }

\* a row of the sheet: a value, a blank cell or a cell of spaces
SheetRowsPool ==
  [ Scenario_Name : {PyStr(<<"S","1">>), NaN},
    Source_Table : {PyStr(<<"c","u","s","t","o","m","e","r","s">>), NaN, PyStr(<<" "," ">>)},
    Target_Table : {PyStr(<<"c","u","s","t","o","m","e","r","_","s","u","m","m","a","r","y">>), NaN},
    Source_Join_Key : {PyStr(<<"c","u","s","t","o","m","e","r","_","i","d">>)},
    Target_Join_Key : {PyStr(<<"c","u","s","t","_","i","d">>)},
    Target_Column : {PyStr(<<"f","u","l","l","_","n","a","m","e">>)},
    Derivation_Logic : {PyStr(<<"f","i","r","s","t","_","n","a","m","e">>), NaN, PyStr(<<" ">>)} ]

SheetInit ==
  /\ ClassifierIdle
  /\ PlanIdle
  /\ BatchIdle
  /\ KeysIdle
  /\ CompileIdle
  /\ RunIdle
  /\ sheet_columns \in ColumnSets
  /\ sheet_rows \in Strings(SheetRowsPool, MaxSheetRows)
  /\ row_index = 0
  /\ generated = <<>>
  /\ spc = "rows"

\* one pass of the for loop over the rows
SheetRow ==
  /\ spc = "rows"
  /\ row_index < Len(sheet_rows)
  /\ row_index' = row_index + 1
  /\ generated' =
       IF skip_empty_row(sheet_columns, sheet_rows[row_index + 1]) THEN generated
       ELSE IF essential(scenario_of(sheet_columns, sheet_rows[row_index + 1]))
       THEN Append(generated, scenario_of(sheet_columns, sheet_rows[row_index + 1]))
       ELSE generated
  /\ UNCHANGED << classifier_vars, plan_vars, batch_vars, keys_vars, compile_vars, run_vars, sheet_columns, sheet_rows, spc >>

\* return scenarios: for an empty sheet at once, else after the last row
SheetReturn ==
  /\ spc = "rows"
  /\ row_index = Len(sheet_rows)
  /\ spc' = "returned"
  /\ UNCHANGED << classifier_vars, plan_vars, batch_vars, keys_vars, compile_vars, run_vars, sheet_columns, sheet_rows,
                  row_index, generated >>

SheetNext == SheetRow \/ SheetReturn

SpecSheet == SheetInit /\ [][SheetNext]_vars

(***************************************************************************)
(* Properties of the scenarios read from a sheet                           *)
(***************************************************************************)
\* the row has a value in the column: the sheet has the column and the cell
\* is neither blank nor made of spaces
HasValue(row, col) ==
  /\ col \in sheet_columns
  /\ row[col].isstr
  /\ \E k \in 1..Len(row[col].s) : ~IsSpace(row[col].s[k])

\* the rows the loop has taken that have a scenario name, a source table and
\* a derivation logic, by their position in the sheet
CompleteRows ==
  { i \in 1..row_index :
      /\ HasValue(sheet_rows[i], "Scenario_Name")
      /\ HasValue(sheet_rows[i], "Source_Table")
      /\ HasValue(sheet_rows[i], "Derivation_Logic") }

\* the position in the sheet of the k-th complete row
CompleteRow(k) ==
  CHOOSE i \in CompleteRows : Cardinality({j \in CompleteRows : j < i}) = k - 1

\* C14: generate_scenarios_from_excel emits a scenario for the rows that have
\* a Source_Table and a Derivation_Logic value and for no other row; a row
\* with either cell missing or blank is passed over and the rows after it are
\* still read
C14_RowsWithoutEssentialsAreSkipped ==
  /\ Len(generated) = Cardinality(CompleteRows)
  /\ \A k \in 1..Len(generated) :
       k <= Cardinality(CompleteRows) =>
         /\ generated[k].source_table = Strip(sheet_rows[CompleteRow(k)]["Source_Table"].s)
         /\ generated[k].derivation_logic = Strip(sheet_rows[CompleteRow(k)]["Derivation_Logic"].s)

(***************************************************************************)
(* Properties of the plans excel_handler compiles                          *)
(***************************************************************************)
\* the scenario declares no target table: the field is empty (no column, or a
\* cell of spaces) or reads 'nan' (a blank cell)
DeclaresNoTarget(scenario) == ~Declared(scenario.target_table)

QualityPlans ==
  { "basic_row_quality", "basic_aggregation_quality", "enhanced_row_quality",
    "enhanced_aggregation_quality" }

\* the plan reads the source table only: no target read, no join, no
\* MATCH / MISMATCH classification
QualityOnly(plan) ==
  /\ plan.template \in QualityPlans
  /\ plan.target_table = <<>>
  /\ plan.on = <<>>
  /\ ~HasTarget(plan)

\* C15: every query excel_handler hands to the engine for a scenario that
\* declares no target table is the quality-only plan
C15_NoTargetCompilesToQualityOnly ==
  entry = "excel_handler" =>
    \A j \in 1..Len(submitted) :
      DeclaresNoTarget(scenarios[submitted[j].index]) => QualityOnly(submitted[j].plan)

\* C16: in one run of either orchestrator the queries reach the engine in the
\* order of the scenarios, at most one per scenario, and the adapter is called
\* at most once per scenario, also after a call that failed
C16_EachScenarioSubmittedAtMostOnce ==
  /\ \A i, j \in 1..Len(submitted) : i < j => submitted[i].index < submitted[j].index
  /\ \A i, j \in 1..Len(answers) : i < j => answers[i].index < answers[j].index
  /\ \A j \in 1..Len(submitted) : submitted[j].index \in 1..Len(scenarios)
  /\ Len(results) <= Len(scenarios)
  /\ Len(scenario_results) <= Len(scenarios)

\* C16 witness: a batch of two scenarios is over, the engine failed on the
\* first query, and each of the two queries was submitted once
C16_Witness ==
  /\ entry = "excel_handler"
  /\ opc = "done"
  /\ Len(scenarios) = 2
  /\ Len(submitted) = 2
  /\ submitted[1].index = 1 /\ submitted[2].index = 2
  /\ Len(answers) = 2
  /\ answers[1].query_result.status = "error"
  /\ scenario_results[1].status = "ERROR"

(***************************************************************************)
(* Properties of the classifier's rules                                    *)
(***************************************************************************)
\* the logic has the shape CASE WHEN ... END
IsCaseWhen(logic) ==
  /\ StartsWith(Upper(Strip(logic)), <<"C","A","S","E"," ","W","H","E","N">>)
  /\ Len(Strip(logic)) >= 3
  /\ SubSeq(Upper(Strip(logic)), Len(Strip(logic)) - 2, Len(Strip(logic))) = <<"E","N","D">>

\* C17: a CASE WHEN ... END logic whose columns are all known columns of the
\* source table comes back as declared, conditions, thresholds and labels
C17_CaseWhenPassesThrough ==
  ( /\ ClassifierReturned
    /\ IsCaseWhen(derivation_logic.s)
    /\ ColumnsReferenced(Strip(derivation_logic.s)) \subseteq KnownColumns(source_table.s) )
  => safe_sql.sql = Strip(derivation_logic.s)

AggregateKeywords == { <<"S","U","M">>, <<"C","O","U","N","T">>, <<"A","V","G">>, <<"M","A","X">>, <<"M","I","N">> }

\* the logic starts with an aggregate keyword and holds the grouping marker
IsGroupedAggregate(logic) ==
  /\ \E f \in AggregateKeywords : StartsWith(Upper(Strip(logic)), f \o <<"(">>)
  /\ Contains(Upper(Strip(logic)), <<"G","R","O","U","P","_","B","Y">>)

\* the aggregate keyword the logic starts with
DeclaredFunction(logic) ==
  CHOOSE f \in AggregateKeywords : StartsWith(Upper(Strip(logic)), f \o <<"(">>)

\* the column between the keyword's parentheses, in lower case
DeclaredColumn(logic) ==
  LET l == Strip(logic)
      open == FindFrom(l, <<"(">>, 1)
      close == FindFrom(l, <<")">>, open)
  IN Lower(Strip(SubSeq(l, open + 1, close - 1)))

\* C18: for logic that starts with an aggregate keyword F and holds GROUP_BY,
\* the fragment is F applied to the declared column when that column is a
\* known column of the source table, and COUNT otherwise
C18_AggregateOfTheDeclaredColumn ==
  (ClassifierReturned /\ IsGroupedAggregate(derivation_logic.s)) =>
     safe_sql.sql =
       IF DeclaredColumn(derivation_logic.s) \in KnownColumns(source_table.s)
       THEN DeclaredFunction(derivation_logic.s) \o <<"(">>
              \o DeclaredColumn(derivation_logic.s) \o <<")">>
       ELSE <<"C","O","U","N","T","(","*",")">>

\* C20: a logic that starts with CONCAT( is resolved by the concatenation rule
\* and one that starts with CASE WHEN by the conditional rule, also when it
\* holds CHECK_NOT_NULL, VALIDATE_EMAIL_FORMAT, VALIDATE_ADDRESS_FORMAT or
\* RANGE_CHECK: those rules come later in the order
C20_ConcatAndCaseWhenComeFirst ==
  (ClassifierReturned /\ ~IsGroupedAggregate(derivation_logic.s)) =>
     /\ StartsWith(Upper(Strip(derivation_logic.s)), <<"C","O","N","C","A","T","(">>) =>
          safe_sql.sql = concat_sql(Strip(derivation_logic.s),
                                    available_columns_of(source_table.s))
     /\ StartsWith(Upper(Strip(derivation_logic.s)), <<"C","A","S","E"," ","W","H","E","N">>) =>
          safe_sql.sql = case_when_sql(Strip(derivation_logic.s),
                                       available_columns_of(source_table.s))

(***************************************************************************)
(* Builder calls: the two transformation builders on bounded arguments     *)
(***************************************************************************)
BuilderArgs ==
  [ source_table : { <<"c","u","s","t","o","m","e","r","s">>, <<"t","r","a","n","s","a","c","t","i","o","n","s">>, <<"o","r","d","e","r","s">> },
    target_table : { <<>>, <<"c","u","s","t","o","m","e","r","_","s","u","m","m","a","r","y">> },
    source_join_key : { <<"c","u","s","t","o","m","e","r","_","i","d">> },
    target_join_key : { <<"c","u","s","t","_","i","d">> },
    target_column : { <<"d","e","r","i","v","e","d","_","v","a","l","u","e">> },
    derivation_logic : LogicInputs ]

CompileInit ==
  /\ ClassifierIdle
  /\ PlanIdle
  /\ BatchIdle
  /\ KeysIdle
  /\ SheetIdle
  /\ RunIdle
  /\ builder \in {"basic", "enhanced"}
  /\ args \in BuilderArgs
  /\ built = Built(NoPlan)
  /\ bpc = "call"

\* one call of create_transformation_validation_sql
CompileBasic ==
  /\ bpc = "call"
  /\ builder = "basic"
  /\ built' = create_transformation_validation_sql(
              args.source_table, args.target_table, args.source_join_key,
              args.target_join_key, args.target_column, args.derivation_logic)
  /\ bpc' = "built"
  /\ UNCHANGED << classifier_vars, plan_vars, batch_vars, keys_vars, sheet_vars, run_vars, builder, args >>

\* one call of create_enhanced_transformation_sql
CompileEnhanced ==
  /\ bpc = "call"
  /\ builder = "enhanced"
  /\ built' = create_enhanced_transformation_sql(
              args.source_table, args.target_table, args.source_join_key,
              args.target_join_key, args.target_column, args.derivation_logic)
  /\ bpc' = "built"
  /\ UNCHANGED << classifier_vars, plan_vars, batch_vars, keys_vars, sheet_vars, run_vars, builder, args >>

CompileNext == CompileBasic \/ CompileEnhanced

SpecCompile == CompileInit /\ [][CompileNext]_vars

(***************************************************************************)
(* Properties of the compiled plans                                        *)
(***************************************************************************)
\* the resolved fragment is an aggregate expression
IsAggregateFragment(fragment) ==
  \E f \in AggregateKeywords : StartsWith(Upper(fragment), f \o <<"(">>)

\* the plan compares computed and actual values within the numeric tolerance
UsesTolerance(plan) == IsAggregationPlan(plan.template)

\* the plan compares the string casts of computed and actual values
UsesStringEquality(plan) == plan.template \in {"basic_row", "enhanced_row"}

\* C19: a compiled plan has GROUP BY exactly when its resolved fragment is an
\* aggregate expression, and a plan with a target compares within the numeric
\* tolerance exactly for aggregate fragments, by string equality for the others
C19_GroupByIffAggregateFragment ==
  (bpc = "built" /\ ~built.raised) =>
     /\ built.plan.group_by <=> IsAggregateFragment(built.plan.fragment)
     /\ HasTarget(built.plan) =>
          /\ UsesTolerance(built.plan) <=> IsAggregateFragment(built.plan.fragment)
          /\ UsesStringEquality(built.plan) <=> ~IsAggregateFragment(built.plan.fragment)

(***************************************************************************)
(* Properties of the join of the comparison plans                          *)
(***************************************************************************)
\* the comparison row pairs a source row with a target row
Paired(r) == r.s # NoRow /\ r.t # NoRow

\* C21: with a composite key of two columns, no comparison plan pairs a source
\* row and a target row that differ on a key column
C21_JoinsOnEveryKeyPair ==
  nkeys >= 2 => \A r \in comparison : Paired(r) => r.s.key = r.t.key

(***************************************************************************)
(* Properties of the recorded verdicts                                     *)
(***************************************************************************)
\* the summary rows of a result set: the rows whose verdict is PASS or FAIL
SummaryRowsOf(data) == {k \in 1..Len(data) : data[k].validation_status \in {"PASS", "FAIL"}}

\* the record excel_handler appended for an answer carries the verdict of the
\* summary row the answer holds
ExcelRecordsTheVerdict ==
  \A k \in 1..Len(answers) :
    LET answer == answers[k].query_result
    IN (answer.status = "success" /\ answers[k].index <= Len(results)) =>
         \A j \in SummaryRowsOf(answer.data) :
           results[answers[k].index].status = answer.data[j].validation_status

\* a record of streamlit_app that counts rows of a FAIL row reads FAIL
StreamlitRecordsTheVerdict ==
  \A k \in 1..Len(scenario_results) :
    scenario_results[k].fail_rows > 0 => scenario_results[k].status = "FAIL"

\* C22: the status either orchestrator records for a query that returned its
\* summary row is the verdict of that row; a FAIL is never recorded as PASS
C22_RecordedStatusIsTheSummaryVerdict ==
  /\ entry = "excel_handler" => ExcelRecordsTheVerdict
  /\ entry = "streamlit_app" => StreamlitRecordsTheVerdict

(***************************************************************************)
(* Properties of the results list of excel_handler                         *)
(***************************************************************************)
\* record i of the list belongs to scenario i of the batch
RecordsInDeclarationOrder(list) ==
  /\ Len(list) <= Len(scenarios)
  /\ \A i \in 1..Len(list) : list[i].scenario_name = scenarios[i].scenario_name

\* one step of excel_handler leaves the list alone or appends one record to it
AppendsOneRecord ==
  /\ Len(results') \in {Len(results), Len(results) + 1}
  /\ SubSeq(results', 1, Len(results)) = results

ResultsStep ==
  entry = "excel_handler" =>
    /\ AppendsOneRecord
    /\ RecordsInDeclarationOrder(results')
    /\ opc' = "done" => (Len(results') = Len(scenarios) /\ scenario_results' = results')

\* C23: excel_handler.execute_all_excel_scenarios only ever appends to results,
\* one record per pass, record i for scenario i, never changing or removing a
\* record it holds, and it ends with one record per scenario
C23_ResultsGrowInDeclarationOrder == [][ResultsStep]_vars

\* C23 witness: a finished run of two different scenarios, the first recorded
\* ERROR and the second PASS, each under its own name
C23_Witness ==
  /\ entry = "excel_handler"
  /\ opc = "done"
  /\ Len(scenarios) = 2
  /\ scenarios[1].scenario_name # scenarios[2].scenario_name
  /\ Len(scenario_results) = 2
  /\ scenario_results[1].status = "ERROR"
  /\ scenario_results[2].status = "PASS"
  /\ scenario_results[1].scenario_name = scenarios[1].scenario_name
  /\ scenario_results[2].scenario_name = scenarios[2].scenario_name

(***************************************************************************)
(* Quality runs: the engine evaluating a plan without a target on bounded  *)
(* source projections                                                      *)
(***************************************************************************)
\* the largest number of rows (or groups) of the source projection; 20 rows
\* make 95% a whole number of rows, 10 rows make 90% one
MaxQualityRows == 20

\* the largest number of NULL values in the projection
MaxQualityNulls == 3

\* the four plans without a target
QualityTemplates ==
  {"basic_aggregation_quality", "basic_row_quality",
   "enhanced_aggregation_quality", "enhanced_row_quality"}

\* the values a projection may hold besides NULL and the number 1
QualityFlags == {"error", ""}

\* a projection of n rows: the first nulls of them NULL, the last one the
\* string flag when one is asked for, every other value the number 1
QualityProjection(n, nulls, flag) ==
  { [key |-> << k >>,
     val |-> IF k <= nulls THEN Null
             ELSE IF k = n /\ flag \in QualityFlags THEN Str(flag)
             ELSE Int64(1)] : k \in 1..n }

QualityInit ==
  /\ ClassifierIdle
  /\ BatchIdle
  /\ CallsIdle
  /\ plan_kind \in QualityTemplates
  /\ nkeys = 1
  /\ \E n \in 0..MaxQualityRows, nulls \in 0..MaxQualityNulls, flag \in QualityFlags \cup {"none"} :
       /\ nulls <= n
       /\ calc_rows = QualityProjection(n, nulls, flag)
  /\ target_rows = {}
  /\ comparison = {}
  /\ summary = NoSummary
  /\ result_rows = <<>>
  /\ qpc = "start"

\* the engine runs the quality plan: a failing CAST AS FLOAT64 ends the query
\* with an error, else the final SELECT returns its rows
RunQuality ==
  /\ qpc = "start"
  /\ IF quality_fails(plan_kind, calc_rows)
     THEN qpc' = "failed" /\ UNCHANGED result_rows
     ELSE /\ result_rows' = quality_select(plan_kind, calc_rows)
          /\ qpc' = "returned"
  /\ UNCHANGED << classifier_vars, batch_vars, call_vars, plan_kind, nkeys, calc_rows, target_rows, comparison, summary >>

QualityNext == RunQuality

SpecQuality == QualityInit /\ [][QualityNext]_vars

(***************************************************************************)
(* Properties of the quality plans                                         *)
(***************************************************************************)
NonNullCount(rows) == Cardinality({r \in rows : r.val # Null})

ErrorFlagged(rows) == Cardinality({r \in rows : r.val # Null /\ LikeError(r.val)})

IsAggregationQuality(template) ==
  template \in {"basic_aggregation_quality", "enhanced_aggregation_quality"}

\* PASS as the claim defines it
QualityPass(template, rows) ==
  IF IsAggregationQuality(template)
  THEN NonNullCount(rows) * 100 >= Cardinality(rows) * 90
  ELSE NonNullCount(rows) * 100 >= Cardinality(rows) * 95 /\ ErrorFlagged(rows) = 0

\* C24: every quality-only plan of either builder says PASS exactly when the
\* non-NULL results are at least 95% of the rows with no error-flagged value
\* (row-level) or at least 90% of the groups (aggregation), and FAIL otherwise
C24_QualityThresholds ==
  (qpc = "returned" /\ plan_kind \in QualityTemplates) =>
    \A k \in 1..Len(result_rows) :
      result_rows[k].validation_status =
        IF QualityPass(plan_kind, calc_rows) THEN "PASS" ELSE "FAIL"

(***************************************************************************)
(* Properties of the range-check rule                                      *)
(***************************************************************************)
\* the arguments of RANGE_CHECK(column, min_value=a, max_value=b)
RangeArgs(logic) ==
  StripAll(Split(SubSeq(Strip(logic), Len(<<"R","A","N","G","E","_","C","H","E","C","K","(">>) + 1, Len(Strip(logic)) - 1), <<",">>))

\* the logic invokes RANGE_CHECK with a column, a minimum and a maximum
IsRangeCheck(logic) ==
  /\ StartsWith(Upper(Strip(logic)), <<"R","A","N","G","E","_","C","H","E","C","K","(">>)
  /\ Strip(logic)[Len(Strip(logic))] = ")"
  /\ Len(RangeArgs(logic)) = 3
  /\ StartsWith(RangeArgs(logic)[2], <<"m","i","n","_","v","a","l","u","e","=">>)
  /\ StartsWith(RangeArgs(logic)[3], <<"m","a","x","_","v","a","l","u","e","=">>)

RangeColumn(logic) == RangeArgs(logic)[1]

RangeMin(logic) == Strip(Split(RangeArgs(logic)[2], <<"=">>)[2])

RangeMax(logic) == Strip(Split(RangeArgs(logic)[3], <<"=">>)[2])

\* the range check of the classifier's own wording, on any column and bounds
RangeCheckOn(column, min, max) ==
  <<"C","A","S","E"," ","W","H","E","N"," ">> \o column \o <<" ",">","="," ">> \o min \o <<" ","A","N","D"," ">> \o column \o <<" ","<","="," ">> \o max
    \o <<" ","T","H","E","N"," ","\"","W","i","t","h","i","n"," ","R","a","n","g","e","\""," ","E","L","S","E"," ","\"","O","u","t"," ","o","f"," ","R","a","n","g","e","\""," ","E","N","D">>

NonNegativeAmount == <<"C","A","S","E"," ","W","H","E","N"," ","a","m","o","u","n","t"," ",">","="," ","0"," ","T","H","E","N"," ","\"","V","a","l","i","d"," ","A","m","o","u","n","t","\""," ","E","L","S","E"," ","\"","I","n","v","a","l","i","d"," ","A","m","o","u","n","t","\""," ","E","N","D">>

\* C25: RANGE_CHECK(column, min_value=, max_value=) resolves to the range
\* check on the column with the declared bounds when the table has the column,
\* else to the non-negativity check on amount when the table has amount, else
\* to the literal "Within Range"
C25_RangeCheckOnTheNamedColumn ==
  (ClassifierReturned /\ IsRangeCheck(derivation_logic.s)) =>
     LET logic == derivation_logic.s
         known == KnownColumns(source_table.s)
     IN safe_sql.sql =
          IF Lower(RangeColumn(logic)) \in known
          THEN RangeCheckOn(Lower(RangeColumn(logic)), RangeMin(logic), RangeMax(logic))
          ELSE IF <<"a","m","o","u","n","t">> \in known THEN NonNegativeAmount
          ELSE <<"\"","W","i","t","h","i","n"," ","R","a","n","g","e","\"">>

(***************************************************************************)
(* Properties of the plans compiled for reference scenarios                *)
(***************************************************************************)
\* the columns of the reference table the lookup join of the plan names
LookupColumns(plan) == {p.t : p \in Range(OnPairs(plan.lookup_on))}

\* the plan is the reference-lookup plan of the scenario: it joins the declared
\* reference table on every declared reference key and takes the computed
\* value from the declared return column
ReferenceLookup(scenario, plan) ==
  /\ IsReference(plan)
  /\ plan.reference_table = scenario.reference_table
  /\ LookupColumns(plan) =
       {Flat(k) : k \in Range(parse_join_keys(scenario.reference_join_key))}
  /\ plan.lookup_column = scenario.reference_return_column

\* C26: every query excel_handler hands to the engine for a scenario that
\* declares a reference table is the reference-lookup plan of that scenario
C26_ReferenceScenarioCompilesToLookup ==
  entry = "excel_handler" =>
    \A j \in 1..Len(submitted) :
      Declared(scenarios[submitted[j].index].reference_table) =>
        ReferenceLookup(scenarios[submitted[j].index], submitted[j].plan)

(***************************************************************************)
(* Runs of excel_handler with the round trip to the engine as two steps:   *)
(* execute_custom_query calls client.query and then blocks in job.result() *)
(* until the engine answers                                                *)
(***************************************************************************)
RunPool == { FullNameScenario, NoKeysScenario, TierScenario, QualityScenario }

RunBatches == UNION { [1..n -> RunPool] : n \in 1..MaxScenarios }

RunInit ==
  /\ ClassifierIdle
  /\ PlanIdle
  /\ KeysIdle
  /\ SheetIdle
  /\ CompileIdle
  /\ entry = "excel_handler"
  /\ scenarios \in RunBatches
  /\ db \in { AnnLeeDatabase, ALeeDatabase, Database({}, {}) }
  /\ connection_status \in {"connected", "None"}
  /\ test_scenarios = IF connection_status = "connected" THEN "client" ELSE "None"
  /\ results = <<>>
  /\ scenario_results = <<>>
  /\ submitted = <<>>
  /\ answers = <<>>
  /\ opc = "loop"
  /\ sql_queries = [i \in 1..Len(scenarios) |-> generate_sql(scenarios[i])]
  /\ engine_answers =
       [i \in 1..Len(scenarios) |->
          execute_custom_query(sql_queries[i].plan, db, connection_status)]

\* the pass of the loop up to the call of job.result(): the records of the
\* paths that never reach the engine, else the query is in flight
ExcelCall(i, scenario, sql_query) ==
  IF sql_query.raised
  THEN /\ results' = Append(results, ErrorRecord(scenario, sql_query.error))
       /\ UNCHANGED << submitted, answers, opc >>
  ELSE IF sql_query.plan.template = "none"
  THEN /\ results' = Append(results, ErrorRecord(scenario, <<"F","a","i","l","e","d"," ","t","o"," ","g","e","n","e","r","a","t","e"," ","S","Q","L"," ","q","u","e","r","y">>))
       /\ UNCHANGED << submitted, answers, opc >>
  ELSE IF ~Submits(connection_status)
  THEN /\ results' = Append(results, result_record(scenario, NoResult))
       /\ answers' = Append(answers, [index |-> i, query_result |-> NoResult])
       /\ UNCHANGED << submitted, opc >>
  ELSE /\ submitted' = Append(submitted, [index |-> i, plan |-> sql_query.plan])
       /\ opc' = "waiting"
       /\ UNCHANGED << results, answers >>

\* excel_handler: one pass of the for loop up to the engine
ExcelSubmit ==
  /\ entry = "excel_handler"
  /\ opc = "loop"
  /\ Len(results) < Len(scenarios)
  /\ ExcelCall(Len(results) + 1, scenarios[Len(results) + 1], sql_queries[Len(results) + 1])
  /\ UNCHANGED << classifier_vars, plan_vars, call_vars, entry, scenarios, db, connection_status,
                  test_scenarios, scenario_results >>

\* the engine answers the query in flight (rows, or an error that
\* execute_custom_query turns into the error dict) and the pass ends with the
\* record of the answer
EngineAnswers ==
  /\ opc = "waiting"
  /\ LET i == submitted[Len(submitted)].index
     IN \E query_result \in engine_answers[i] :
          /\ results' = Append(results, result_record(scenarios[i], query_result))
          /\ answers' = Append(answers, [index |-> i, query_result |-> query_result])
  /\ opc' = "loop"
  /\ UNCHANGED << classifier_vars, plan_vars, call_vars, entry, scenarios, db, connection_status,
                  test_scenarios, scenario_results, submitted >>

RunNext == ExcelSubmit \/ EngineAnswers \/ ExcelStore

\* the interpreter keeps running the loop; nothing obliges the engine to answer
SpecRun == RunInit /\ [][RunNext]_vars /\ WF_vars(ExcelSubmit) /\ WF_vars(ExcelStore)

(***************************************************************************)
(* Properties of the runs                                                  *)
(***************************************************************************)
RunOver == opc = "done" /\ Len(scenario_results) = Len(scenarios)

\* C27: every run of excel_handler ends with a record for every scenario, also
\* when the engine never answers a query it was handed
C27_EveryRunEndsWithEveryVerdict == <>RunOver

(***************************************************************************)
(* Properties of the summary counts                                        *)
(***************************************************************************)
\* the sum of the bucket counts the validation_summary CTE of the plan selects
BucketSum(counts) ==
  counts.matching_rows + counts.mismatched_rows + counts.source_null_rows
    + counts.target_null_rows
    + (IF "both_null_rows" \in DOMAIN counts THEN counts.both_null_rows ELSE 0)

Summarized == qpc \in {"summarized", "returned"}

\* C28: in every comparison summary the bucket counts add up to the total row
\* count, and the matching rows are at most the total rows
C28_BucketsAccountForEveryRow ==
  Summarized =>
    /\ BucketSum(summary) = summary.total_rows
    /\ summary.matching_rows <= summary.total_rows

(***************************************************************************)
(* Properties of the statuses excel_handler records                        *)
(***************************************************************************)
\* len([r for r in results if r['status'] == status])
StatusCount(status) == Cardinality({k \in 1..Len(results) : results[k].status = status})

\* C29: every record of excel_handler reads PASS, FAIL or ERROR, so that the
\* three counts of the closing message add up to the scenarios processed
C29_StatusIsPassFailOrError ==
  entry = "excel_handler" =>
    /\ \A k \in 1..Len(results) : results[k].status \in {"PASS", "FAIL", "ERROR"}
    /\ StatusCount("PASS") + StatusCount("FAIL") + StatusCount("ERROR") = Len(results)

(***************************************************************************)
(* Properties of the records for results without rows                      *)
(***************************************************************************)
\* the adapter answered with a result that has no row
AnsweredNoRows(k) ==
  /\ answers[k].query_result.status = "success"
  /\ Len(answers[k].query_result.data) = 0
  /\ answers[k].index <= Len(results)

\* C30: a query that ran and returned no row is recorded by excel_handler as
\* PASS with total_records 0 and passed_records 0
C30_NoRowsIsRecordedPass ==
  entry = "excel_handler" =>
    \A k \in 1..Len(answers) :
      AnsweredNoRows(k) =>
        /\ results[answers[k].index].status = "PASS"
        /\ results[answers[k].index].total_records = 0
        /\ results[answers[k].index].passed_records = 0

\* C30 witness: the comparison of an empty source with an empty target ran,
\* its summary was filtered out by total_rows > 0, and the record reads PASS
C30_Witness ==
  /\ entry = "excel_handler"
  /\ db = Database({}, {})
  /\ \E k \in 1..Len(answers) :
       /\ AnsweredNoRows(k)
       /\ HasTarget(submitted[k].plan)
       /\ results[answers[k].index].status = "PASS"
       /\ results[answers[k].index].total_records = 0

====
